---- MODULE Spec2Model ----
(***************************************************************************)
(* A model of the reseed service (go-i2p/reseed-tools).                    *)
(*                                                                         *)
(*   - the reseed engine of reseed/service.go (atomic.Value variant):      *)
(*     Start, rebuild, PeerSu3Bytes;                                       *)
(*   - the one-time token store of reseed/server.go: Acceptable,           *)
(*     CheckAcceptable;                                                    *)
(*   - the request pipeline of reseed/server.go: the middleware chains of  *)
(*     NewServer, the two rate limiters, reseedHandler;                    *)
(*   - the blacklist of reseed/constants.go (BlockIP, LoadFile) and the    *)
(*     blacklist listener of the clearnet transports;                      *)
(*   - the SU3 container of package su3: Sign, BodyBytes, MarshalBinary,   *)
(*     UnmarshalBinary, VerifySignature.                                   *)
(*                                                                         *)
(* Go's int is taken to be 64 bits wide, so that int(crc32) in Peer.Hash   *)
(* keeps the value of the uint32 checksum.                                 *)
(* The rate limiters are those of the throttled library, whose source is   *)
(* not part of the repository: they are taken to be leaky buckets with the *)
(* parameters NewServer gives them.  Time is counted in minutes.           *)
(***************************************************************************)
EXTENDS Integers, Sequences, FiniteSets, TLC

VARIABLES
    \* ---- reseed engine (ReseederImpl) ----
    NumRi,        \* ReseederImpl.NumRi
    NumSu3,       \* ReseederImpl.NumSu3
    su3s,         \* ReseederImpl.su3s: the value held by the atomic.Value
    startPc,      \* where Start() and its ticker goroutine are
    rebuildPc,    \* where the running rebuild() is ("idle" when none runs)
    ris,          \* rebuild's local ris, after the 75% trim (<<>> when none runs)
    newSu3s,      \* rebuild's local newSu3s (<<>> when none runs)
    seedsLeft,    \* su3 files the pipeline has still to deliver on su3Chan
    gen,          \* number of rebuild() calls made so far
    lastErr,      \* what the last rebuild() call returned
    committed,    \* history: every value ever stored into su3s
    \* ---- direct callers of PeerSu3Bytes ----
    rpc,          \* per caller: "idle" or "loaded" (between Load and the index)
    rm,           \* per caller: the local m
    rpeer,        \* per caller: the peer argument
    rret,         \* per caller: what the last call returned
    \* ---- one-time tokens (Server.acceptables) ----
    acceptables,  \* Server.acceptables: token -> time of issue
    now,          \* the wall clock, in minutes
    nextTok,      \* the next string SecureRandomAlphaString returns
    issueCount,   \* number of Acceptable() calls made in this run
    lastCheck,    \* argument and result of the last CheckAcceptable call
    accepted,     \* history: token -> number of CheckAcceptable calls that returned true
    \* ---- HTTP server (Server, NewServer) ----
    trustProxy,   \* NewServer's trustProxy argument
    RequestRateLimit, \* Server.RequestRateLimit, set from the ratelimit flag
    WebRateLimit, \* Server.WebRateLimit, set from the ratelimitweb flag
    thTat,        \* store of the bundle limiter th: key -> theoretical arrival time
    thwTat,       \* store of the browse limiter thw: key -> theoretical arrival time
    lastReq,      \* the request served last
    lastResp,     \* what the ResponseWriter of that request holds
    reqCount,     \* number of requests served so far
    log,          \* what the clients of the burst scenario have received, in order
    \* ---- clearnet listener (blacklistListener under http.Server.Serve) ----
    blacklist,    \* Blacklist.blacklist: the set of blocked IP strings
    conns,        \* the connections AcceptTCP has returned so far, in order
    serveLoop,    \* "running" while Serve loops on Accept, else "returned"
    lastLoad,     \* the last Blacklist.LoadFile call: its number, argument, the file, its result
    \* ---- one SU3 file on its way from the signer to a verifier (package su3) ----
    su3Input,     \* the File as its maker filled it in, before any method ran
    su3File,      \* the File s on the signer's side
    su3Key,       \* the argument of the Sign call (NilKey: nil, or none made)
    su3Err,       \* what the Sign call returned ("" for nil)
    su3Data,      \* the bytes MarshalBinary returned, as they reach the reader
    su3Tampered,  \* offset of the byte changed in transit, -1 when none was
    su3Parsed,    \* the File UnmarshalBinary has filled
    su3Cert,      \* the argument of the VerifySignature call
    su3VerifyErr, \* what the VerifySignature call returned ("" for nil)
    su3Pc,        \* how far the file has come
    \* ---- the goroutines and channels of one rebuild() (seedsProducer, su3Builder, fanIn) ----
    netdb,        \* how many router infos the reader finds at each of the rebuilds to come
    allRis,       \* what netdb.RouterInfos() returned to the running (or last) rebuild
    SigningKey,   \* ReseederImpl.SigningKey
    producer,     \* the goroutine of seedsProducer: where it is and its loop counter i
    builders,     \* the three goroutines of su3Builder: where each is and the file it holds
    forwarders,   \* the three forwarding goroutines of fanIn: where each is and the file it holds
    su3Chan,      \* the channel fanIn returns: its buffer and whether it is closed
    wg,           \* the WaitGroup counter of fanIn
    closer,       \* the goroutine of fanIn that waits and closes the channel
    built,        \* history: for each element of newSu3s, the seed set it was built from and by whom
    \* ---- the engine that keeps its snapshot in a goroutine behind the channel rs.su3s ----
    swapM,        \* the local m of the swapper goroutine of Start()
    peerPc,       \* where each PeerSu3Bytes call is
    peerM,        \* the local m of each PeerSu3Bytes call
    peerRet,      \* what each caller's last PeerSu3Bytes call returned
    handed        \* history: how many snapshots rebuild() has sent on rs.su3s

engineVars == <<NumRi, NumSu3, su3s, startPc, rebuildPc, ris, newSu3s, seedsLeft,
                gen, lastErr, committed>>
readerVars == <<rpc, rm, rpeer, rret>>
tokenVars == <<acceptables, now, nextTok, issueCount, lastCheck, accepted>>
httpVars == <<trustProxy, RequestRateLimit, WebRateLimit, thTat, thwTat, lastReq, lastResp, reqCount, log>>
listenerVars == <<blacklist, conns, serveLoop, lastLoad>>
su3Vars == <<su3Input, su3File, su3Key, su3Err, su3Data, su3Tampered, su3Parsed,
             su3Cert, su3VerifyErr, su3Pc>>
pipeVars == <<netdb, allRis, SigningKey, producer, builders, forwarders, su3Chan, wg, closer, built>>
mailboxVars == <<swapM, peerPc, peerM, peerRet, handed>>
vars == <<engineVars, readerVars, tokenVars, httpVars, listenerVars, su3Vars, pipeVars,
          mailboxVars>>

Nil == "nil"

\* A nil []byte, and the outcome of an index expression that panics.
NilBytes == [gen |-> 0, k |-> 0]
Panic == [gen |-> -1, k |-> -1]
\* The value of rret before the call has returned.
Pending == [data |-> NilBytes, err |-> "pending"]

(***************************************************************************)
(* Bounds of the model.                                                    *)
(***************************************************************************)
MaxRis == 4        \* router infos the netdb reader returns, at most
MaxRebuilds == 3   \* rebuild() calls in one run
MaxIssue == 4      \* Acceptable() calls in one run
MaxClock == 5      \* minutes the clock runs for

Max(a, b) == IF a > b THEN a ELSE b

(***************************************************************************)
(* Peers.  A Peer is a string; Peer.Hash is crc32(sha256(p)) as an int.    *)
(* The digest is a fixed function of the string: it is given as a table.   *)
(***************************************************************************)
Hosts == {"10.0.0.1", "10.0.0.2", "testpeer"}

Hash(p) ==
    CASE p = "10.0.0.1" -> 7
      [] p = "10.0.0.2" -> 12
      [] p = "10.0.0.1:4001" -> 8
      [] p = "10.0.0.1:4002" -> 3
      [] p = "10.0.0.2:4001" -> 9
      [] OTHER -> 5

(***************************************************************************)
(* The reseed engine.                                                      *)
(***************************************************************************)
\* LocalNetDbImpl.RouterInfos: the candidates that survive the reader's
\* filters, in the order of the map iteration; err is never set.
RouterInfos(n) == [routerInfos |-> [i \in 1..n |-> i], err |-> Nil]

\* The whole list, nothing dropped.
TrimNone(all) == all

\* ris = ris[len(ris)/4:]
TrimRis(all) == SubSeq(all, (Len(all) \div 4) + 1, Len(all))

\* seedsProducer: the number of seed sets it emits.
NumSu3s(lenRis) ==
    IF NumSu3 # 0 THEN NumSu3
    ELSE IF lenRis > 4000 THEN 300
    ELSE IF lenRis > 3000 THEN 200
    ELSE IF lenRis > 2000 THEN 100
    ELSE IF lenRis > 1000 THEN 75
    ELSE 50

\* gs.MarshalBinary() of the k-th su3 file of rebuild g; err is always nil.
MarshalBinary(g, k) == [data |-> [gen |-> g, k |-> k], err |-> Nil]

\* rs.su3s.Store(v)
StoreSu3s(v) ==
    /\ su3s' = v
    /\ committed' = committed \cup {v}

\* rebuild() returns an error: nothing is stored.
RebuildFailClearing(msg, after) ==
    /\ lastErr' = msg
    /\ startPc' = after
    /\ rebuildPc' = "idle"
    /\ ris' = <<>> /\ newSu3s' = <<>> /\ seedsLeft' = 0
    /\ StoreSu3s(<<>>)
RebuildFail(msg, after) ==
    /\ lastErr' = msg
    /\ startPc' = after
    /\ rebuildPc' = "idle"
    /\ ris' = <<>> /\ newSu3s' = <<>> /\ seedsLeft' = 0
    /\ UNCHANGED <<su3s, committed>>

\* rebuild(), from its entry to the start of the collecting loop.  `caller' is
\* the value startPc takes while the rebuild runs, `after' the value it takes
\* when rebuild has returned.
RebuildEnter(n, caller, after) ==
    LET got == RouterInfos(n)
        trimmed == TrimRis(got.routerInfos)
    IN  /\ gen' = gen + 1
        /\ IF got.err # Nil
           THEN RebuildFail("unable to get routerInfos", after)
           ELSE IF NumRi > Len(trimmed)
           THEN RebuildFail("not enough routerInfos", after)
           ELSE /\ ris' = trimmed
                /\ newSu3s' = <<>>
                /\ seedsLeft' = Max(NumSu3s(Len(trimmed)), 0)
                /\ rebuildPc' = "collect"
                /\ startPc' = caller
                /\ UNCHANGED <<lastErr, su3s, committed>>
        /\ UNCHANGED <<NumRi, NumSu3>>

\* Start(): the initial rebuild is called.
StartCall ==
    /\ startPc = "new"
    /\ \E n \in 0..MaxRis : RebuildEnter(n, "initial", "ticker")
    /\ UNCHANGED <<readerVars, tokenVars, httpVars, listenerVars, su3Vars, pipeVars, mailboxVars>>

\* A loop that is still selecting after the quit case has run.
AtSelectOrReturned == startPc \in {"ticker", "stopped"}

\* The goroutine of Start is at its select, no rebuild of its own running.
AtSelect == startPc = "ticker"

\* A timer whose every tick starts a rebuild of its own.
TickerFireDetached ==
    /\ startPc \in {"initial", "periodic", "ticker"}
    /\ gen < MaxRebuilds
    /\ \E n \in 0..MaxRis : RebuildEnter(n, "periodic", "ticker")
    /\ UNCHANGED <<readerVars, tokenVars, httpVars, listenerVars, su3Vars, pipeVars, mailboxVars>>

\* The ticker goroutine of Start: case <-ticker.C.
TickerFire ==
    /\ AtSelect
    /\ gen < MaxRebuilds
    /\ \E n \in 0..MaxRis : RebuildEnter(n, "periodic", "ticker")
    /\ UNCHANGED <<readerVars, tokenVars, httpVars, listenerVars, su3Vars, pipeVars, mailboxVars>>

\* The ticker goroutine of Start: case <-quit.
Quit ==
    /\ AtSelect
    /\ startPc' = "stopped"
    /\ UNCHANGED <<NumRi, NumSu3, su3s, rebuildPc, ris, newSu3s, seedsLeft, gen,
                   lastErr, committed>>
    /\ UNCHANGED <<readerVars, tokenVars, httpVars, listenerVars, su3Vars, pipeVars, mailboxVars>>

\* rebuild(): one iteration of `for gs := range su3Chan'.
RebuildCollect ==
    /\ rebuildPc = "collect"
    /\ seedsLeft > 0
    /\ LET m == MarshalBinary(gen, Len(newSu3s) + 1)
       IN  IF m.err # Nil
           THEN RebuildFail(m.err, "ticker")
           ELSE /\ newSu3s' = Append(newSu3s, m.data)
                /\ seedsLeft' = seedsLeft - 1
                /\ UNCHANGED <<lastErr, rebuildPc, startPc, su3s, committed, ris>>
    /\ UNCHANGED <<NumRi, NumSu3, gen>>
    /\ UNCHANGED <<readerVars, tokenVars, httpVars, listenerVars, su3Vars, pipeVars, mailboxVars>>

\* rebuild(): su3Chan is closed; the new set is stored and rebuild returns nil.
RebuildStore ==
    /\ rebuildPc = "collect"
    /\ seedsLeft = 0
    /\ StoreSu3s(newSu3s)
    /\ lastErr' = Nil
    /\ rebuildPc' = "idle"
    /\ startPc' = "ticker"
    /\ ris' = <<>> /\ newSu3s' = <<>>
    /\ UNCHANGED <<NumRi, NumSu3, seedsLeft, gen>>
    /\ UNCHANGED <<readerVars, tokenVars, httpVars, listenerVars, su3Vars, pipeVars, mailboxVars>>

(***************************************************************************)
(* PeerSu3Bytes.                                                           *)
(***************************************************************************)
Readers == {"r1", "r2"}

\* rs.su3s.Load().([][]byte)
LoadInProgress == IF rebuildPc = "collect" THEN newSu3s ELSE su3s
LoadSu3s == su3s

\* m[i] of Go, a panic when i is out of range.
Index(m, i) == IF i >= 0 /\ i < Len(m) THEN m[i + 1] ELSE Panic

\* PeerSu3Bytes after the Load: the value it returns for the local m.
Su3BytesOf(m, peer) ==
    IF Len(m) = 0
    THEN [data |-> NilBytes, err |-> "404"]
    ELSE [data |-> Index(m, Hash(peer) % Len(m)), err |-> Nil]

\* PeerSu3Bytes: m := rs.su3s.Load()
PeerSu3BytesLoad(r, peer) ==
    /\ rpc[r] = "idle"
    /\ rpc' = [rpc EXCEPT ![r] = "loaded"]
    /\ rm' = [rm EXCEPT ![r] = LoadSu3s]
    /\ rpeer' = [rpeer EXCEPT ![r] = peer]
    /\ rret' = [rret EXCEPT ![r] = Pending]
    /\ UNCHANGED <<engineVars, pipeVars, mailboxVars, su3Vars, tokenVars, httpVars, listenerVars>>

\* PeerSu3Bytes: the length check, the index and the return.
PeerSu3BytesReturn(r) ==
    /\ rpc[r] = "loaded"
    /\ rpc' = [rpc EXCEPT ![r] = "idle"]
    /\ rret' = [rret EXCEPT ![r] = Su3BytesOf(rm[r], rpeer[r])]
    /\ UNCHANGED <<rm, rpeer>>
    /\ UNCHANGED <<engineVars, pipeVars, mailboxVars, su3Vars, tokenVars, httpVars, listenerVars>>

(***************************************************************************)
(* The engine with concurrent callers of PeerSu3Bytes.                     *)
(***************************************************************************)
NumRiValues == {1, 3}
NumSu3Values == {1, 2}

InitEngine ==
    /\ NumRi \in NumRiValues
    /\ NumSu3 \in NumSu3Values
    /\ su3s = <<>>
    /\ committed = {<<>>}
    /\ startPc = "new"
    /\ rebuildPc = "idle"
    /\ ris = <<>>
    /\ newSu3s = <<>>
    /\ seedsLeft = 0
    /\ gen = 0
    /\ lastErr = Nil

InitReaders ==
    /\ rpc = [r \in Readers |-> "idle"]
    /\ rm = [r \in Readers |-> <<>>]
    /\ rpeer = [r \in Readers |-> "testpeer"]
    /\ rret = [r \in Readers |-> Pending]


(***************************************************************************)
(* The one-time tokens of the browse surface.  A token is a 16-letter      *)
(* string of crypto/rand; the strings are opaque and are numbered in the   *)
(* order they are drawn (no string is drawn twice).  Token 0 stands for a  *)
(* string that was never issued.  Every operation holds acceptablesMutex   *)
(* from entry to return, so each is one step.                              *)
(***************************************************************************)
TokenCap == 50
TokenLifetime == 4

Len0(m) == Cardinality(DOMAIN m)
Delete(m, v) == [t \in DOMAIN m \ {v} |-> m[t]]

\* time.Since(timeout) > 4 * time.Minute
Expired(issuedAt) == now - issuedAt > TokenLifetime

\* checkAcceptableUnsafe over the whole map: the expired entries are deleted.
PurgeExpired(m) == [t \in {u \in DOMAIN m : ~Expired(m[u])} |-> m[t]]

\* The tokens of the store that no client submits in this run: those that
\* were in the store when the run started, but for token 1.  They carry the
\* same time of issue, so nothing tells one from another.
Anonymous(m) == {t \in DOMAIN m : t > 1 /\ t < nextTok - issueCount}
SetMax(S) == CHOOSE x \in S : \A y \in S : y <= x

\* The entries a `for val := range srv.acceptables' may meet next.  Go leaves
\* the order of a map iteration unspecified: any entry may be met.  Of the
\* anonymous entries the largest stands for all.
RangeNext(m) ==
    (DOMAIN m \ Anonymous(m))
        \cup (IF Anonymous(m) = {} THEN {} ELSE {SetMax(Anonymous(m))})

\* The second loop of Acceptable: entries are deleted in the order of the map
\* iteration until fewer than 50 are left.
RECURSIVE EvictResults(_)
EvictResults(m) ==
    IF Len0(m) < TokenCap
    THEN {m}
    ELSE UNION {EvictResults(Delete(m, v)) : v \in RangeNext(m)}

\* if len(srv.acceptables) > 50
NeverOverCap(m) == FALSE
OverCap(m) == Len0(m) > TokenCap

\* Acceptable() up to the insertion: the maps the two loops may leave.
IssueKept(m) ==
    IF OverCap(m) THEN EvictResults(PurgeExpired(m)) ELSE {m}

\* srv.acceptables[acceptme] = time.Now()
Issue(kept) ==
    [t \in DOMAIN kept \cup {nextTok} |-> IF t = nextTok THEN now ELSE kept[t]]

\* Acceptable()
Acceptable ==
    /\ issueCount < MaxIssue
    /\ \E kept \in IssueKept(acceptables) : acceptables' = Issue(kept)
    /\ nextTok' = nextTok + 1
    /\ issueCount' = issueCount + 1
    /\ UNCHANGED <<now, lastCheck, accepted>>

\* CheckAcceptable(val): [ret, acceptables after the call]
CheckKeeping(m, val) ==
    IF val \in DOMAIN m
    THEN IF Expired(m[val])
         THEN [ret |-> FALSE, m |-> Delete(m, val)]
         ELSE [ret |-> TRUE, m |-> m]
    ELSE [ret |-> FALSE, m |-> m]
CheckAcceptableOf(m, val) ==
    IF val \in DOMAIN m
    THEN IF Expired(m[val])
         THEN [ret |-> FALSE, m |-> Delete(m, val)]
         ELSE [ret |-> TRUE, m |-> Delete(m, val)]
    ELSE [ret |-> FALSE, m |-> m]

\* The history of accepted tokens after a call with result ret.
Count(acc, val, ret) ==
    IF ret
    THEN [t \in DOMAIN acc \cup {val} |->
            IF t \in DOMAIN acc
            THEN acc[t] + (IF t = val THEN 1 ELSE 0)
            ELSE 1]
    ELSE acc

CheckAcceptable(val) ==
    LET c == CheckAcceptableOf(acceptables, val)
    IN  /\ acceptables' = c.m
        /\ lastCheck' = [val |-> val, ret |-> c.ret]
        /\ accepted' = Count(accepted, val, c.ret)
        /\ UNCHANGED <<now, nextTok, issueCount>>

\* A minute passes.
Tick ==
    /\ now < MaxClock
    /\ now' = now + 1
    /\ UNCHANGED <<acceptables, nextTok, issueCount, lastCheck, accepted>>

\* The strings a client may submit: one never issued, the first token of the
\* store and the tokens issued in this run.
CheckVals == {0, 1} \cup {t \in 1..(nextTok - 1) : t >= nextTok - issueCount}

\* The store is empty, or holds a number of tokens that earlier Acceptable()
\* calls have issued in the minute before the run starts.
PreloadSizes == {0, 49}

InitTokens ==
    /\ \E k \in PreloadSizes :
          /\ acceptables = [t \in 1..k |-> 0]
          /\ nextTok = k + 1
    /\ now = 0
    /\ issueCount = 0
    /\ lastCheck = [val |-> 0, ret |-> FALSE]
    /\ accepted = [t \in {} |-> 0]

InitTokensIdle ==
    /\ acceptables = [t \in {} |-> 0]
    /\ nextTok = 1
    /\ now = 0
    /\ issueCount = 0
    /\ lastCheck = [val |-> 0, ret |-> FALSE]
    /\ accepted = [t \in {} |-> 0]

(***************************************************************************)
(* The request pipeline.  A RemoteAddr is the string host:port, or a bare  *)
(* host when it carries no port; the model keeps the two parts apart and   *)
(* joins them where the code uses the whole string.  All strings are in    *)
(* lower case, so the limiter's strings.ToLower leaves them as they are.   *)
(* The content directory of the browse surface exists.                     *)
(***************************************************************************)
Addr(h, p) == [host |-> h, port |-> p]
NoHeader == Addr("", "")

\* The string r.RemoteAddr.
JoinHostPort(a) == IF a.port = "" THEN a.host ELSE a.host \o ":" \o a.port

\* net.SplitHostPort(r.RemoteAddr)
SplitHostPort(a) ==
    IF a.port = ""
    THEN [host |-> "", err |-> "missing port in address"]
    ELSE [host |-> a.host, err |-> Nil]

I2pUserAgent == "Wget/1.11.4"

\* A fresh ResponseWriter.  status 0: no header written yet.  logged and m
\* are not part of the response: the error reseedHandler logged, and the
\* snapshot its PeerSu3Bytes call loaded.
\* form: the token in the homepage's form, 0 when the body holds none;
\* declared: a Content-Length is set and the body written has reached it;
\* refused: the texts whose Write failed for that reason.
NewResponse ==
    [status |-> 0, su3 |-> NilBytes, text |-> <<>>, connClose |-> FALSE,
     ran |-> <<>>, logged |-> Nil, m |-> <<>>, declared |-> FALSE, refused |-> <<>>,
     form |-> 0]

\* w.WriteHeader(code): the first call fixes the status.
WriteHeader(w, code) == IF w.status = 0 THEN [w EXCEPT !.status = code] ELSE w

\* w.Write of a text; an implicit WriteHeader(200) comes first.
WriteText(w, t) ==
    IF w.declared
    THEN [w EXCEPT !.refused = Append(@, t)]
    ELSE [WriteHeader(w, 200) EXCEPT !.text = Append(@, t)]

\* http.Error(w, msg, code)
HttpError(w, msg, code) == WriteText(WriteHeader(w, code), msg)

\* Handler h has been entered with request r.
Ran(w, h, r) ==
    [w EXCEPT !.ran = Append(@, [h |-> h, addr |-> JoinHostPort(r.addr), ua |-> r.ua])]

\* proxiedMiddleware, which NewServer puts first when trustProxy is set.
proxiedMiddleware(r) ==
    IF trustProxy /\ r.xff # NoHeader THEN [r EXCEPT !.addr = r.xff] ELSE r

disableKeepAliveMiddleware(w) == [w EXCEPT !.connClose = TRUE]

\* The peer string when the port is left on.
PeerOfWholeAddr(a) == JoinHostPort(a)

\* The peer string reseedHandler fingerprints.
PeerOf(a) ==
    LET sp == SplitHostPort(a)
    IN  IF sp.err = Nil THEN sp.host ELSE JoinHostPort(a)

reseedHandler(w, r) ==
    LET got == Su3BytesOf(LoadSu3s, PeerOf(r.addr))
        w1 == [Ran(w, "reseedHandler", r) EXCEPT !.m = LoadSu3s]
    IN  IF got.err # Nil
        THEN HttpError([w1 EXCEPT !.logged = got.err], "500 Unable to serve su3", 500)
        ELSE [WriteHeader(w1, 200) EXCEPT !.su3 = got.data, !.declared = TRUE]

\* The comparison of verifyMiddleware and browsingMiddleware.
\* A comparison that ignores the case of the letters.
UserAgentEqualFold(ua) == ua \in {I2pUserAgent, "wget/1.11.4"}
UserAgentIs(ua) == I2pUserAgent = ua

\* verifyMiddleware: [pass, w]
verifyMiddleware(w, r) ==
    IF ~UserAgentIs(r.ua)
    THEN [pass |-> FALSE, w |-> HttpError(Ran(w, "verifyMiddleware", r), "403 Forbidden", 403)]
    ELSE [pass |-> TRUE, w |-> Ran(w, "verifyMiddleware", r)]

HourMinutes == 60
BundleQuota == 4
WebQuota == 30

\* The limiter throttled.RateLimit(throttled.PerHour(quota), ...) builds: a
\* cell-rate limiter that emits one request every hour/quota and tolerates a
\* burst of quota requests.  [limited, the store after the call]
RateLimit(tat, key, quota) ==
    LET interval == HourMinutes \div quota
        tolerance == interval * quota
        cur == IF key \in DOMAIN tat THEN Max(tat[key], now) ELSE now
        newTat == cur + interval
        limited == now < newTat - tolerance
    IN  [limited |-> limited,
         tat |-> IF limited
                 THEN tat
                 ELSE [k \in DOMAIN tat \cup {key} |->
                         IF k = key THEN newTat ELSE tat[k]]]

\* VaryBy{RemoteAddr: true}: the key of a request.
Key(r) == JoinHostPort(r.addr)

\* A chain without the limiter: every request passes.
ThrottleNone(w, r, tat, quota) ==
    [pass |-> TRUE, w |-> Ran(w, "Throttle", r), tat |-> tat]

\* th.Throttle and thw.Throttle: [pass, w, the store after the call]
Throttle(w, r, tat, quota) ==
    LET l == RateLimit(tat, Key(r), quota)
    IN  [pass |-> ~l.limited,
         w |-> IF l.limited
               THEN HttpError(Ran(w, "Throttle", r), "limit exceeded", 429)
               ELSE Ran(w, "Throttle", r),
         tat |-> l.tat]

\* The chain mounted on prefix+"/i2pseeds.su3": [w, th's store after it]
BundleHandler(req) ==
    LET r == proxiedMiddleware(req)
        v == verifyMiddleware(disableKeepAliveMiddleware(NewResponse), r)
        t == Throttle(v.w, r, thTat, BundleQuota)
    IN  IF ~v.pass THEN [w |-> v.w, tat |-> thTat]
        ELSE IF ~t.pass THEN [w |-> t.w, tat |-> t.tat]
        ELSE [w |-> reseedHandler(t.w, r), tat |-> t.tat]

Request(endpoint, req) ==
    [endpoint |-> endpoint, addr |-> req.addr, ua |-> req.ua, xff |-> req.xff,
     path |-> req.path, onetime |-> req.onetime]
NoRequest ==
    [endpoint |-> "none", addr |-> NoHeader, ua |-> "", xff |-> NoHeader,
     path |-> "", onetime |-> 0]

\* One request to the bundle endpoint, from the mux to the last write.
BundleRequest(req) ==
    /\ LET o == BundleHandler(req)
       IN  /\ lastResp' = o.w
           /\ thTat' = o.tat
    /\ lastReq' = Request("bundle", req)
    /\ reqCount' = reqCount + 1
    /\ UNCHANGED <<trustProxy, RequestRateLimit, WebRateLimit, thwTat>>

\* routeRequest and handleDynamicRequest: the page a path leads to.
Paths == {"/", "/i2pseeds", "/readout"}
IsHomepage(path) == path # "/readout"

\* handleHomepageRequest: the page with the token Acceptable() returned.
Homepage(w, tok) ==
    IF w.declared
    THEN WriteText(w, "homepage")
    ELSE [WriteText(w, "homepage") EXCEPT !.form = tok]

\* The chain mounted on "/": thw.Throttle, browsingMiddleware, errorHandler.
\* browsingMiddleware goes on after reseedHandler has written.  The homepage
\* calls Acceptable() and embeds the new token in its form.
BrowseRequest(req) ==
    /\ LET r == proxiedMiddleware(req)
           t == Throttle(disableKeepAliveMiddleware(NewResponse), r, thwTat, WebQuota)
           c == CheckAcceptableOf(acceptables, r.onetime)
           w1 == Ran(t.w, "browsingMiddleware", r)
           w2 == IF c.ret THEN reseedHandler(w1, r) ELSE w1
       IN  /\ thwTat' = t.tat
           /\ IF ~t.pass
              THEN /\ lastResp' = t.w
                   /\ UNCHANGED <<acceptables, nextTok, issueCount, lastCheck, accepted>>
              ELSE /\ lastCheck' = [val |-> r.onetime, ret |-> c.ret]
                   /\ accepted' = Count(accepted, r.onetime, c.ret)
                   /\ IF I2pUserAgent # r.ua /\ IsHomepage(r.path)
                      THEN /\ issueCount < MaxIssue
                           /\ \E kept \in IssueKept(c.m) : acceptables' = Issue(kept)
                           /\ nextTok' = nextTok + 1
                           /\ issueCount' = issueCount + 1
                           /\ lastResp' = Homepage(Ran(w2, "HandleARealBrowser", r), nextTok)
                      ELSE /\ acceptables' = c.m
                           /\ UNCHANGED <<nextTok, issueCount>>
                           /\ lastResp' = IF I2pUserAgent # r.ua
                                          THEN WriteText(Ran(w2, "HandleARealBrowser", r), "readout")
                                          ELSE WriteHeader(Ran(w2, "errorHandler", r), 404)
    /\ lastReq' = Request("browse", req)
    /\ reqCount' = reqCount + 1
    /\ UNCHANGED <<trustProxy, RequestRateLimit, WebRateLimit, thTat, now>>

NoKeys == [k \in {} |-> 0]

\* The values the command gives the two fields when the flags are left at
\* their defaults.
InitConfig ==
    /\ RequestRateLimit = 4
    /\ WebRateLimit = 40

InitServer ==
    /\ thTat = NoKeys
    /\ thwTat = NoKeys
    /\ lastReq = NoRequest
    /\ lastResp = NewResponse
    /\ reqCount = 0
    /\ log = <<>>

(***************************************************************************)
(* The clearnet listener.  ListenAndServe and ListenAndServeTLS hand       *)
(* http.Server.Serve a blacklistListener.  Serve calls Accept in a loop,   *)
(* starts a goroutine for every connection Accept returns, and returns     *)
(* when Accept fails with an error that is not temporary.  A connection of *)
(* a TCP listener always carries a port.                                   *)
(***************************************************************************)
MaxConns == 3
MaxBundles == 2
MaxLoads == 2
MaxPieces == 3

\* A lookup that finds nothing.
isBlockedNever(bl, ip) == FALSE
isBlocked(bl, ip) == ip \in bl

\* blacklistListener.Accept once AcceptTCP has returned a connection from a:
\* [conn: whether a connection is returned, closed: whether tc.Close() ran, err]
BlacklistAccept(bl, a) ==
    LET sp == SplitHostPort(a)
    IN  IF sp.err # Nil
        THEN [conn |-> TRUE, closed |-> TRUE, err |-> sp.err]
        ELSE IF isBlocked(bl, sp.host)
        THEN [conn |-> FALSE, closed |-> TRUE,
              err |-> "connection rejected: IP address is blacklisted"]
        ELSE [conn |-> TRUE, closed |-> FALSE, err |-> Nil]

\* One round of Serve's loop: Accept returns, and Serve starts a goroutine for
\* the connection or returns the error.  listed records whether the peer's IP
\* was in the blacklist when Accept looked.
Accept(a) ==
    /\ serveLoop = "running"
    /\ Len(conns) < MaxConns
    /\ LET o == BlacklistAccept(blacklist, a)
       IN  /\ conns' = Append(conns,
                          [addr |-> a, listed |-> a.host \in blacklist,
                           closed |-> o.closed, handed |-> o.conn /\ o.err = Nil,
                           served |-> FALSE])
           /\ serveLoop' = IF o.err # Nil THEN "returned" ELSE "running"
    /\ UNCHANGED <<blacklist, lastLoad>>

\* Blacklist.BlockIP(ip)
BlockIP(ip) ==
    /\ blacklist' = blacklist \cup {ip}
    /\ UNCHANGED <<conns, serveLoop, lastLoad>>

\* strings.Split(content, "\n"), the content given as its newlines and the
\* runs of other characters between them
RECURSIVE Split(_)
Split(content) ==
    IF content = <<>> THEN <<"">>
    ELSE LET rest == Split(Tail(content))
         IN  IF Head(content) = "\n"
             THEN <<"">> \o rest
             ELSE <<Head(content) \o Head(rest)>> \o Tail(rest)

\* the blacklist after BlockIP for each of lines in turn
RECURSIVE BlockAll(_, _)
BlockAll(bl, lines) ==
    IF lines = <<>> THEN bl ELSE BlockAll(bl \cup {Head(lines)}, Tail(lines))

NoLoad == [n |-> 0, file |-> "", readable |-> FALSE, content |-> <<>>, err |-> Nil]

\* Blacklist.LoadFile(file), os.ReadFile finding the content or failing
LoadFile(file, readable, content) ==
    /\ lastLoad.n < MaxLoads
    /\ IF file # ""
       THEN IF readable
            THEN /\ blacklist' = BlockAll(blacklist, Split(content))
                 /\ lastLoad' = [n |-> lastLoad.n + 1, file |-> file, readable |-> TRUE,
                                 content |-> content, err |-> Nil]
            ELSE /\ blacklist' = blacklist
                 /\ lastLoad' = [n |-> lastLoad.n + 1, file |-> file, readable |-> FALSE,
                                 content |-> <<>>, err |-> "open: no such file or directory"]
       ELSE /\ blacklist' = blacklist
            /\ lastLoad' = [n |-> lastLoad.n + 1, file |-> file, readable |-> FALSE,
                            content |-> <<>>, err |-> Nil]
    /\ UNCHANGED <<conns, serveLoop>>

\* The goroutine of connection i reads a request for the bundle endpoint and
\* serves it; the response carries Connection: close.
ConnServe(i, ua) ==
    /\ conns[i].handed
    /\ ~conns[i].closed
    /\ BundleRequest([addr |-> conns[i].addr, ua |-> ua, xff |-> NoHeader,
                      path |-> "/i2pseeds.su3", onetime |-> 0])
    /\ conns' = [conns EXCEPT ![i].served = TRUE, ![i].closed = lastResp'.connClose]
    /\ UNCHANGED <<blacklist, serveLoop, lastLoad, log>>

InitListener ==
    /\ blacklist = {}
    /\ conns = <<>>
    /\ serveLoop = "running"
    /\ lastLoad = NoLoad

(***************************************************************************)
(* The SU3 container (package su3).  Byte slices are sequences of numbers  *)
(* 0..255.  A key is its identity and its size in bytes; a certificate     *)
(* carries the public half of one key.  The hash functions are taken to be *)
(* free of collisions: a digest is written as the size of the hash         *)
(* followed by the bytes hashed.  RSA signing with PKCS#1 v1.5 padding is  *)
(* deterministic: the signature of a digest under a key is one string of   *)
(* as many bytes as the key has, and no other string verifies.             *)
(***************************************************************************)
minVersionLength == 16
magicBytes == <<73, 50, 80, 115, 117, 51>>   \* "I2Psu3"

SigTypeDSA == 0
SigTypeECDSAWithSHA256 == 1
SigTypeECDSAWithSHA384 == 2
SigTypeECDSAWithSHA512 == 3
SigTypeRSAWithSHA256 == 4
SigTypeRSAWithSHA384 == 5
SigTypeRSAWithSHA512 == 6
RSATypes == {SigTypeRSAWithSHA256, SigTypeRSAWithSHA384, SigTypeRSAWithSHA512}

Zeros(n) == [i \in 1..n |-> 0]

\* binary.Write of an unsigned integer of n bytes, big endian
RECURSIVE BigEndianBytes(_, _)
BigEndianBytes(x, n) ==
    IF n = 0 THEN <<>> ELSE BigEndianBytes(x \div 256, n - 1) \o <<x % 256>>

\* binary.Read of an unsigned integer, big endian
RECURSIVE BigEndian(_)
BigEndian(b) ==
    IF b = <<>> THEN 0
    ELSE 256 * BigEndian(SubSeq(b, 1, Len(b) - 1)) + b[Len(b)]

NilKey == [id |-> 0, size |-> 0]
NilCert == [id |-> 0, size |-> 0]
Certificate(k) == [id |-> k.id, size |-> k.size]

\* the zero File, as new(File) gives it
NewFile ==
    [Format |-> 0, SignatureType |-> 0, FileType |-> 0, ContentType |-> 0,
     Version |-> <<>>, SignerID |-> <<>>, Content |-> <<>>, Signature |-> <<>>]

\* the signatureLength BodyBytes writes into the header
signatureLength(s) ==
    CASE s.SignatureType = SigTypeDSA -> 40
      [] s.SignatureType \in {SigTypeECDSAWithSHA256, SigTypeRSAWithSHA256} -> 256
      [] s.SignatureType \in {SigTypeECDSAWithSHA384, SigTypeRSAWithSHA384} -> 384
      [] s.SignatureType \in {SigTypeECDSAWithSHA512, SigTypeRSAWithSHA512} ->
            IF Len(s.Signature) > 0 THEN Len(s.Signature) % 65536 ELSE 256
      [] OTHER -> 512

\* BodyBytes pads s.Version in place
PadVersion(s) ==
    IF Len(s.Version) < minVersionLength
    THEN [s EXCEPT !.Version = @ \o Zeros(minVersionLength - Len(@))]
    ELSE s

BodyBytes(s) ==
    LET p == PadVersion(s)
    IN  magicBytes \o <<0>> \o <<s.Format>>
        \o BigEndianBytes(s.SignatureType, 2)
        \o BigEndianBytes(signatureLength(s), 2)
        \o <<0>> \o <<Len(p.Version) % 256>>
        \o <<0>> \o <<Len(s.SignerID) % 256>>
        \o BigEndianBytes(Len(s.Content), 8)
        \o <<0>> \o <<s.FileType>>
        \o <<0>> \o <<s.ContentType>>
        \o Zeros(12)
        \o p.Version \o s.SignerID \o s.Content

MarshalBinary_su3(s) == BodyBytes(s) \o s.Signature

\* binary.Read of n bytes from the reader r: when fewer are left the read
\* fails, the reader is drained and the destination keeps its zeros
ReadBytes(r, n) ==
    IF Len(r) >= n
    THEN [val |-> SubSeq(r, 1, n), rest |-> SubSeq(r, n + 1, Len(r))]
    ELSE [val |-> Zeros(n), rest |-> <<>>]

UnmarshalBinary(data) ==
    LET magic  == ReadBytes(data, 6)
        skip1  == ReadBytes(magic.rest, 1)
        format == ReadBytes(skip1.rest, 1)
        sigT   == ReadBytes(format.rest, 2)
        sigL   == ReadBytes(sigT.rest, 2)
        skip2  == ReadBytes(sigL.rest, 1)
        verL   == ReadBytes(skip2.rest, 1)
        skip3  == ReadBytes(verL.rest, 1)
        sidL   == ReadBytes(skip3.rest, 1)
        conL   == ReadBytes(sidL.rest, 8)
        skip4  == ReadBytes(conL.rest, 1)
        fileT  == ReadBytes(skip4.rest, 1)
        skip5  == ReadBytes(fileT.rest, 1)
        conT   == ReadBytes(skip5.rest, 1)
        bigSkip == ReadBytes(conT.rest, 12)
        version == ReadBytes(bigSkip.rest, BigEndian(verL.val))
        signer  == ReadBytes(version.rest, BigEndian(sidL.val))
        content == ReadBytes(signer.rest, BigEndian(conL.val))
        signature == ReadBytes(content.rest, BigEndian(sigL.val))
    IN  [Format |-> BigEndian(format.val), SignatureType |-> BigEndian(sigT.val),
         FileType |-> BigEndian(fileT.val), ContentType |-> BigEndian(conT.val),
         Version |-> version.val, SignerID |-> signer.val,
         Content |-> content.val, Signature |-> signature.val]

\* size of the digest of the hash Sign and checkSignature choose; 0: none
HashSize(sigType) ==
    CASE sigType = SigTypeDSA -> 20
      [] sigType \in {SigTypeECDSAWithSHA256, SigTypeRSAWithSHA256} -> 32
      [] sigType \in {SigTypeECDSAWithSHA384, SigTypeRSAWithSHA384} -> 48
      [] sigType \in {SigTypeECDSAWithSHA512, SigTypeRSAWithSHA512} -> 64
      [] OTHER -> 0

Sum(hashSize, bytes) == <<hashSize>> \o bytes

SignPKCS1v15(k, digest) ==
    <<k.id>> \o digest \o Zeros(k.size - 1 - Len(digest))

VerifyPKCS1v15(pub, digest, sig) ==
    /\ Len(sig) = pub.size
    /\ sig = SignPKCS1v15(pub, digest)

\* File.Sign: the File it leaves behind and the error it returns
SignOf(s, privkey) ==
    IF privkey = NilKey
    THEN [s |-> s, err |-> "private key cannot be nil"]
    ELSE LET tmp == [s EXCEPT !.Signature = Zeros(privkey.size)]
         IN  IF HashSize(s.SignatureType) = 0
             THEN [s |-> tmp, err |-> "unknown signature type"]
             ELSE [s |-> [PadVersion(tmp) EXCEPT !.Signature =
                            SignPKCS1v15(privkey,
                                Sum(HashSize(s.SignatureType), BodyBytes(tmp)))],
                   err |-> ""]

\* File.VerifySignature with checkSignature: the error returned ("" for nil)
VerifySignatureOf(s, cert) ==
    IF HashSize(s.SignatureType) = 0 THEN "unknown signature type"
    ELSE IF cert = NilCert THEN "x509: certificate is nil"
    ELSE IF VerifyPKCS1v15(cert, Sum(HashSize(s.SignatureType), BodyBytes(s)),
                           s.Signature)
         THEN ""
         ELSE "crypto/rsa: verification error"

Keys == {[id |-> 1, size |-> 256], [id |-> 2, size |-> 256], [id |-> 3, size |-> 512]}
SigTypes == 0..7
Versions == {<<>>, <<49, 55>>, [i \in 1..17 |-> 48 + (i % 10)]}
SignerIDs == {<<>>, <<109, 101>>}
Contents == {<<>>, <<80, 75, 3>>}
MaxOffset == 80

InitSu3Idle ==
    /\ su3Input = NewFile
    /\ su3File = NewFile
    /\ su3Key = NilKey
    /\ su3Err = ""
    /\ su3Data = <<>>
    /\ su3Tampered = -1
    /\ su3Parsed = NewFile
    /\ su3Cert = NilCert
    /\ su3VerifyErr = ""
    /\ su3Pc = "idle"

InitSu3 ==
    /\ su3Input \in {[Format |-> 0, SignatureType |-> t, FileType |-> 0,
                      ContentType |-> 3, Version |-> v, SignerID |-> i,
                      Content |-> c, Signature |-> <<>>] :
                        t \in SigTypes, v \in Versions, i \in SignerIDs,
                        c \in Contents}
    /\ su3File = su3Input
    /\ su3Key = NilKey
    /\ su3Err = ""
    /\ su3Data = <<>>
    /\ su3Tampered = -1
    /\ su3Parsed = NewFile
    /\ su3Cert = NilCert
    /\ su3VerifyErr = ""
    /\ su3Pc = "new"

Sign(privkey) ==
    /\ su3Pc = "new"
    /\ su3Key' = privkey
    /\ su3File' = SignOf(su3File, privkey).s
    /\ su3Err' = SignOf(su3File, privkey).err
    /\ su3Pc' = "signed"
    /\ UNCHANGED <<su3Input, su3Data, su3Tampered, su3Parsed, su3Cert, su3VerifyErr>>

MarshalBinary_call ==
    /\ su3Pc \in {"new", "signed"}
    /\ su3Data' = MarshalBinary_su3(su3File)
    /\ su3File' = PadVersion(su3File)
    /\ su3Pc' = "marshalled"
    /\ UNCHANGED <<su3Input, su3Key, su3Err, su3Tampered, su3Parsed, su3Cert, su3VerifyErr>>

\* one byte of the signed region changes on the way; the six high bytes of
\* the content length are left alone
Tamper(at) ==
    /\ su3Pc = "marshalled"
    /\ at \in 0..(Len(BodyBytes(su3File)) - 1)
    /\ at \notin 16..21
    /\ su3Data' = [su3Data EXCEPT ![at + 1] = (@ + 1) % 256]
    /\ su3Tampered' = at
    /\ su3Pc' = "tampered"
    /\ UNCHANGED <<su3Input, su3File, su3Key, su3Err, su3Parsed, su3Cert, su3VerifyErr>>

UnmarshalBinary_call ==
    /\ su3Pc \in {"marshalled", "tampered"}
    /\ su3Parsed' = UnmarshalBinary(su3Data)
    /\ su3Pc' = "parsed"
    /\ UNCHANGED <<su3Input, su3File, su3Key, su3Err, su3Data, su3Tampered, su3Cert, su3VerifyErr>>

VerifySignature(cert) ==
    /\ su3Pc = "parsed"
    /\ su3Cert' = cert
    /\ su3VerifyErr' = VerifySignatureOf(su3Parsed, cert)
    /\ su3Pc' = "verified"
    /\ UNCHANGED <<su3Input, su3File, su3Key, su3Err, su3Data, su3Tampered, su3Parsed>>

(***************************************************************************)
(* One rebuild() with its goroutines: seedsProducer sends numSu3s seed     *)
(* sets on an unbuffered channel, three su3Builder goroutines turn each    *)
(* into a signed su3 file and send it on their own unbuffered channel,     *)
(* fanIn forwards the three channels into one of capacity three and        *)
(* closes it when the three are closed, and rebuild collects from it.  A   *)
(* send and the receive that takes it are one step.  A router info is its  *)
(* number; a zip archive is the bytes "PK" followed by the numbers of its  *)
(* entries in order.                                                       *)
(***************************************************************************)
FileTypeZIP == 0
ContentTypeReseed == 3
NumBuilders == 3
Workers == 1..NumBuilders

\* rs.SignerID and the version su3.New() takes from the clock
SignerID == <<109, 101>>
UnixTime == <<49, 55, 48, 48, 48, 48, 48, 48, 48, 48>>

\* su3.New()
New == [NewFile EXCEPT !.Version = UnixTime, !.SignatureType = SigTypeRSAWithSHA512]

zipSeeds(seeds) == [data |-> <<80, 75>> \o seeds, err |-> Nil]

\* the error Sign returns is dropped
createSu3(seeds) ==
    LET zipped == zipSeeds(seeds)
        file == [New EXCEPT !.FileType = FileTypeZIP,
                            !.ContentType = ContentTypeReseed]
    IN  IF zipped.err # Nil
        THEN [gs |-> NewFile, err |-> zipped.err]
        ELSE [gs |-> SignOf([file EXCEPT !.Content = zipped.data,
                                         !.SignerID = SignerID],
                            SigningKey).s,
              err |-> Nil]

\* rand.Perm(lenRis): of the permutations of 0..lenRis-1 the generator may
\* return, the ascending and the descending one
Perms(lenRis) ==
    {[z \in 1..lenRis |-> z - 1], [z \in 1..lenRis |-> lenRis - z]}

\* the seed sets one round of the producer's loop may draw
SeedSets(r, n) ==
    {[z \in 1..n |-> r[unsorted[z] + 1]] : unsorted \in Perms(Len(r))}

NoGoroutine == [pc |-> "off", gs |-> NewFile, k |-> 0, seeds |-> <<>>]

InitPipeIdle ==
    /\ netdb = <<>>
    /\ allRis = <<>>
    /\ SigningKey = NilKey
    /\ producer = [pc |-> "off", i |-> 0]
    /\ builders = [b \in Workers |-> NoGoroutine]
    /\ forwarders = [b \in Workers |-> NoGoroutine]
    /\ su3Chan = [buf |-> <<>>, closed |-> FALSE]
    /\ wg = 0
    /\ closer = "off"
    /\ built = <<>>

\* rebuild(), from its entry to the start of the collecting loop
rebuild ==
    LET got == RouterInfos(Head(netdb))
        trimmed == TrimRis(got.routerInfos)
    IN  /\ rebuildPc = "idle"
        /\ netdb # <<>>
        /\ netdb' = Tail(netdb)
        /\ gen' = gen + 1
        /\ allRis' = got.routerInfos
        /\ IF got.err # Nil \/ NumRi > Len(trimmed)
           THEN /\ lastErr' = IF got.err # Nil THEN "unable to get routerInfos"
                              ELSE "not enough routerInfos"
                /\ startPc' = "ticker"
                /\ UNCHANGED <<rebuildPc, ris, newSu3s, producer, builders, forwarders,
                               su3Chan, wg, closer, built>>
           ELSE /\ ris' = trimmed
                /\ producer' = [pc |-> "loop", i |-> 0]
                /\ builders' = [b \in Workers |-> [NoGoroutine EXCEPT !.pc = "recv"]]
                /\ forwarders' = [b \in Workers |-> [NoGoroutine EXCEPT !.pc = "recv"]]
                /\ su3Chan' = [buf |-> <<>>, closed |-> FALSE]
                /\ wg' = NumBuilders
                /\ closer' = "wait"
                /\ newSu3s' = <<>>
                /\ built' = <<>>
                /\ rebuildPc' = "collect"
                /\ startPc' = IF startPc = "new" THEN "initial" ELSE "periodic"
                /\ UNCHANGED lastErr
        /\ UNCHANGED <<NumRi, NumSu3, su3s, committed, seedsLeft, SigningKey>>

\* A builder that takes the seed set and sends nothing on.
ProducerSendLosing(b, seeds) ==
    /\ producer.pc = "loop"
    /\ producer.i < NumSu3s(Len(ris))
    /\ builders[b].pc = "recv"
    /\ producer' = [producer EXCEPT !.i = @ + 1]
    /\ UNCHANGED <<engineVars, netdb, allRis, SigningKey, builders, forwarders, su3Chan, wg,
                   closer, built>>

\* seedsProducer: out <- seeds, taken by builder b, which builds the file
ProducerSend(b, seeds) ==
    /\ producer.pc = "loop"
    /\ producer.i < NumSu3s(Len(ris))
    /\ builders[b].pc = "recv"
    /\ producer' = [producer EXCEPT !.i = @ + 1]
    /\ LET c == createSu3(seeds)
       IN  builders' = IF c.err # Nil THEN builders
                       ELSE [builders EXCEPT ![b] =
                               [pc |-> "send", gs |-> c.gs, k |-> producer.i + 1,
                                seeds |-> seeds]]
    /\ UNCHANGED <<engineVars, netdb, allRis, SigningKey, forwarders, su3Chan, wg, closer, built>>

\* seedsProducer: close(out)
ProducerClose ==
    /\ producer.pc = "loop"
    /\ producer.i >= NumSu3s(Len(ris))
    /\ producer' = [producer EXCEPT !.pc = "closed"]
    /\ UNCHANGED <<engineVars, netdb, allRis, SigningKey, builders, forwarders, su3Chan, wg, closer, built>>

\* su3Builder takes a seed set for which createSu3 returns the archive
\* writer's error: the error is logged and the loop continues
BuilderSkip(b) ==
    /\ producer.pc = "loop"
    /\ producer.i < NumSu3s(Len(ris))
    /\ builders[b].pc = "recv"
    /\ producer' = [producer EXCEPT !.i = @ + 1]
    /\ UNCHANGED <<engineVars, netdb, allRis, SigningKey, builders, forwarders, su3Chan, wg, closer, built>>

\* su3Builder: out <- gs, taken by its forwarder
BuilderSend(b) ==
    /\ builders[b].pc = "send"
    /\ forwarders[b].pc = "recv"
    /\ forwarders' = [forwarders EXCEPT ![b] = [builders[b] EXCEPT !.pc = "put"]]
    /\ builders' = [builders EXCEPT ![b] = [NoGoroutine EXCEPT !.pc = "recv"]]
    /\ UNCHANGED <<engineVars, netdb, allRis, SigningKey, producer, su3Chan, wg, closer, built>>

\* su3Builder: the range over the closed seed channel ends, close(out)
BuilderClose(b) ==
    /\ builders[b].pc = "recv"
    /\ producer.pc = "closed"
    /\ builders' = [builders EXCEPT ![b].pc = "closed"]
    /\ UNCHANGED <<engineVars, netdb, allRis, SigningKey, producer, forwarders, su3Chan, wg, closer, built>>

\* fanIn: out <- n
ForwarderSend(b) ==
    /\ forwarders[b].pc = "put"
    /\ Len(su3Chan.buf) < NumBuilders
    /\ ~su3Chan.closed
    /\ su3Chan' = [su3Chan EXCEPT !.buf = Append(@, [gs |-> forwarders[b].gs,
                                                    k |-> forwarders[b].k,
                                                    seeds |-> forwarders[b].seeds,
                                                    by |-> b])]
    /\ forwarders' = [forwarders EXCEPT ![b] = [NoGoroutine EXCEPT !.pc = "recv"]]
    /\ UNCHANGED <<engineVars, netdb, allRis, SigningKey, producer, builders, wg, closer, built>>

\* A forwarder that ends without wg.Done().
ForwarderDoneSilent(b) ==
    /\ forwarders[b].pc = "recv"
    /\ builders[b].pc = "closed"
    /\ forwarders' = [forwarders EXCEPT ![b].pc = "done"]
    /\ UNCHANGED <<engineVars, netdb, allRis, SigningKey, producer, builders, su3Chan, wg, closer, built>>

\* fanIn: the range over the closed input ends, wg.Done()
ForwarderDone(b) ==
    /\ forwarders[b].pc = "recv"
    /\ builders[b].pc = "closed"
    /\ forwarders' = [forwarders EXCEPT ![b].pc = "done"]
    /\ wg' = wg - 1
    /\ UNCHANGED <<engineVars, netdb, allRis, SigningKey, producer, builders, su3Chan, closer, built>>

\* fanIn: wg.Wait() returns, close(out)
CloserClose ==
    /\ closer = "wait"
    /\ wg = 0
    /\ closer' = "done"
    /\ su3Chan' = [su3Chan EXCEPT !.closed = TRUE]
    /\ UNCHANGED <<engineVars, netdb, allRis, SigningKey, producer, builders, forwarders, wg, built>>

\* rebuild(): one iteration of `for gs := range su3Chan'
Collect ==
    /\ rebuildPc = "collect"
    /\ su3Chan.buf # <<>>
    /\ LET n == Head(su3Chan.buf)
       IN  /\ newSu3s' = Append(newSu3s, MarshalBinary_su3(n.gs))
           /\ built' = Append(built, [k |-> n.k, seeds |-> n.seeds, by |-> n.by])
    /\ su3Chan' = [su3Chan EXCEPT !.buf = Tail(@)]
    /\ UNCHANGED <<NumRi, NumSu3, su3s, startPc, rebuildPc, ris, seedsLeft, gen, lastErr,
                   committed>>
    /\ UNCHANGED <<netdb, allRis, SigningKey, producer, builders, forwarders, wg, closer>>

\* rebuild(): su3Chan is closed and drained; the new set is stored
Store ==
    /\ rebuildPc = "collect"
    /\ su3Chan.buf = <<>>
    /\ su3Chan.closed
    /\ StoreSu3s(newSu3s)
    /\ lastErr' = Nil
    /\ rebuildPc' = "idle"
    /\ startPc' = "ticker"
    /\ UNCHANGED <<NumRi, NumSu3, ris, newSu3s, seedsLeft, gen>>
    /\ UNCHANGED pipeVars

(***************************************************************************)
(* The engine with the snapshot behind a channel: Start() runs a swapper   *)
(* goroutine that holds the snapshot m and, in one select, receives a new  *)
(* m from rs.su3s or sends m on rs.su3s.  rebuild() sends its new set on   *)
(* the channel; PeerSu3Bytes receives m from it and sends m back when it   *)
(* returns.  The channel is unbuffered: a send and its receive are one     *)
(* step, and any sender is paired with any receiver that is waiting.       *)
(* Snapshots are numbered in the order rebuild() made them, 0 for nil.     *)
(***************************************************************************)
MaxHandovers == 2

InitMailboxIdle ==
    /\ swapM = 0
    /\ peerPc = [r \in Readers |-> "off"]
    /\ peerM = [r \in Readers |-> 0]
    /\ peerRet = [r \in Readers |-> Pending]
    /\ handed = 0

\* Start() has started the swapper, var m [][]byte
InitMailbox ==
    /\ swapM = 0
    /\ peerPc = [r \in Readers |-> "idle"]
    /\ peerM = [r \in Readers |-> 0]
    /\ peerRet = [r \in Readers |-> Pending]
    /\ handed = 0

\* what PeerSu3Bytes returns for its local m
ReturnOf(m) == IF m = 0 THEN [data |-> NilBytes, err |-> "404"]
               ELSE [data |-> [gen |-> m, k |-> 1], err |-> Nil]

\* rebuild(): rs.su3s <- newSu3s, received by the swapper (case m = <-rs.su3s)
RebuildToSwapper ==
    /\ handed < MaxHandovers
    /\ handed' = handed + 1
    /\ swapM' = handed + 1
    /\ UNCHANGED <<peerPc, peerM, peerRet>>

\* rebuild(): rs.su3s <- newSu3s, received by a PeerSu3Bytes call (m := <-rs.su3s)
RebuildToPeer(r) ==
    /\ handed < MaxHandovers
    /\ peerPc[r] = "idle"
    /\ handed' = handed + 1
    /\ peerPc' = [peerPc EXCEPT ![r] = "holding"]
    /\ peerM' = [peerM EXCEPT ![r] = handed + 1]
    /\ peerRet' = [peerRet EXCEPT ![r] = Pending]
    /\ UNCHANGED swapM

\* PeerSu3Bytes: m := <-rs.su3s, sent by the swapper (case rs.su3s <- m)
PeerFromSwapper(r) ==
    /\ peerPc[r] = "idle"
    /\ peerPc' = [peerPc EXCEPT ![r] = "holding"]
    /\ peerM' = [peerM EXCEPT ![r] = swapM]
    /\ peerRet' = [peerRet EXCEPT ![r] = Pending]
    /\ UNCHANGED <<swapM, handed>>

\* PeerSu3Bytes of q returns: its deferred rs.su3s <- m is received by the
\* swapper
PeerToSwapper(q) ==
    /\ peerPc[q] = "holding"
    /\ peerPc' = [peerPc EXCEPT ![q] = "idle"]
    /\ peerRet' = [peerRet EXCEPT ![q] = ReturnOf(peerM[q])]
    /\ swapM' = peerM[q]
    /\ UNCHANGED <<peerM, handed>>

\* PeerSu3Bytes of q returns: its deferred rs.su3s <- m is received by the
\* call of r (m := <-rs.su3s)
PeerToPeer(q, r) ==
    /\ q # r
    /\ peerPc[q] = "holding"
    /\ peerPc[r] = "idle"
    /\ peerPc' = [peerPc EXCEPT ![q] = "idle", ![r] = "holding"]
    /\ peerRet' = [peerRet EXCEPT ![q] = ReturnOf(peerM[q]), ![r] = Pending]
    /\ peerM' = [peerM EXCEPT ![r] = peerM[q]]
    /\ UNCHANGED <<swapM, handed>>

NextTokens ==
    \/ Acceptable /\ UNCHANGED <<engineVars, pipeVars, mailboxVars, su3Vars, readerVars, httpVars, listenerVars>>
    \/ \E v \in CheckVals : CheckAcceptable(v) /\ UNCHANGED <<engineVars, pipeVars, mailboxVars, su3Vars, readerVars, httpVars, listenerVars>>
    \/ Tick /\ UNCHANGED <<engineVars, pipeVars, mailboxVars, su3Vars, readerVars, httpVars, listenerVars>>

InitEngineIdle ==
    /\ NumRi = 1
    /\ NumSu3 = 1
    /\ su3s = <<>>
    /\ committed = {<<>>}
    /\ startPc = "new"
    /\ rebuildPc = "idle"
    /\ ris = <<>>
    /\ newSu3s = <<>>
    /\ seedsLeft = 0
    /\ gen = 0
    /\ lastErr = Nil

TokensInit ==
    /\ InitTokens
    /\ InitEngineIdle
    /\ InitReaders
    /\ trustProxy = FALSE
    /\ InitConfig
    /\ InitServer
    /\ InitListener
    /\ InitSu3Idle
    /\ InitPipeIdle
    /\ InitMailboxIdle

SpecTokens == TokensInit /\ [][NextTokens]_vars

Init ==
    /\ InitEngine
    /\ InitReaders
    /\ InitTokensIdle
    /\ trustProxy = FALSE
    /\ InitConfig
    /\ InitServer
    /\ InitListener
    /\ InitSu3Idle
    /\ InitPipeIdle
    /\ InitMailboxIdle

Next ==
    \/ StartCall
    \/ TickerFire
    \/ Quit
    \/ RebuildCollect
    \/ RebuildStore
    \/ \E r \in Readers, p \in Hosts : PeerSu3BytesLoad(r, p)
    \/ \E r \in Readers : PeerSu3BytesReturn(r)

Spec == Init /\ [][Next]_vars

(***************************************************************************)
(* The bundle endpoint over a running engine.                              *)
(***************************************************************************)
UserAgents ==
    {I2pUserAgent, "wget/1.11.4", "Wget/1.11.5", "Wget/1.11.4-ubuntu", ""}
ClientAddrs == {Addr("10.0.0.1", "4001"), Addr("10.0.0.1", "4002"), Addr("10.0.0.2", "4001")}

BundleReq(a, ua, x) ==
    [addr |-> a, ua |-> ua, xff |-> x, path |-> "/i2pseeds.su3", onetime |-> 0]

MaxRequests == 2

HTTPInit ==
    /\ NumRi = 1
    /\ NumSu3 = 2
    /\ su3s = <<>>
    /\ committed = {<<>>}
    /\ startPc = "new"
    /\ rebuildPc = "idle"
    /\ ris = <<>>
    /\ newSu3s = <<>>
    /\ seedsLeft = 0
    /\ gen = 0
    /\ lastErr = Nil
    /\ InitReaders
    /\ InitTokensIdle
    /\ trustProxy = FALSE
    /\ InitConfig
    /\ InitServer
    /\ InitListener
    /\ InitSu3Idle
    /\ InitPipeIdle
    /\ InitMailboxIdle

NextHTTP ==
    \/ StartCall
    \/ TickerFire
    \/ Quit
    \/ RebuildCollect
    \/ RebuildStore
    \/ \E a \in ClientAddrs, ua \in {I2pUserAgent, ""} :
          /\ reqCount < MaxRequests
          /\ BundleRequest(BundleReq(a, ua, NoHeader))
          /\ UNCHANGED <<log, engineVars, pipeVars, mailboxVars, su3Vars, readerVars, tokenVars, listenerVars>>

SpecHTTP == HTTPInit /\ [][NextHTTP]_vars

(***************************************************************************)
(* Both endpoints over an engine that has built one snapshot and has been  *)
(* stopped, with the clock running.  With trustProxy set the server stands *)
(* behind a reverse proxy: every request arrives from the proxy's address  *)
(* and names the client's IP in X-Forwarded-For.                           *)
(***************************************************************************)
ProxyAddr == Addr("10.0.0.9", "5000")
Forwarded(a) == Addr(a.host, "")

\* What the server receives when the client at address a sends a request.
Arriving(a, ua, path, onetime) ==
    [addr |-> IF trustProxy THEN ProxyAddr ELSE a,
     ua |-> ua,
     xff |-> IF trustProxy THEN Forwarded(a) ELSE NoHeader,
     path |-> path, onetime |-> onetime]

Snapshot1 == <<[gen |-> 1, k |-> 1], [gen |-> 1, k |-> 2]>>

InitEngineServing ==
    /\ NumRi = 1
    /\ NumSu3 = 2
    /\ su3s = Snapshot1
    /\ committed = {<<>>, Snapshot1}
    /\ startPc = "stopped"
    /\ rebuildPc = "idle"
    /\ ris = <<>>
    /\ newSu3s = <<>>
    /\ seedsLeft = 0
    /\ gen = 1
    /\ lastErr = Nil

MaxQuarters == 2

\* A quarter of an hour passes: the time in which th emits one request.
Wait ==
    /\ now < MaxQuarters * (HourMinutes \div BundleQuota)
    /\ now' = now + (HourMinutes \div BundleQuota)
    /\ UNCHANGED <<acceptables, nextTok, issueCount, lastCheck, accepted>>
    /\ UNCHANGED <<engineVars, pipeVars, mailboxVars, su3Vars, readerVars, httpVars, listenerVars>>

BrowserAgents == {I2pUserAgent, "Mozilla/5.0"}
SharedAddr == Addr("10.0.0.1", "4001")

\* th's store after n admitted requests from SharedAddr in one minute.
RECURSIVE AfterBurst(_)
AfterBurst(n) ==
    IF n = 0
    THEN NoKeys
    ELSE RateLimit(AfterBurst(n - 1),
                   Key(proxiedMiddleware(Arriving(SharedAddr, I2pUserAgent, "/i2pseeds.su3", 0))),
                   BundleQuota).tat

\* th's store is empty, or holds what four requests of one client in the
\* minute before the run starts have left.
RateInit ==
    /\ InitEngineServing
    /\ InitReaders
    /\ InitTokensIdle
    /\ trustProxy \in BOOLEAN
    /\ InitConfig
    /\ thTat \in {NoKeys, AfterBurst(BundleQuota)}
    /\ thwTat = NoKeys
    /\ lastReq = NoRequest
    /\ lastResp = NewResponse
    /\ reqCount = 0
    /\ log = <<>>
    /\ InitListener
    /\ InitSu3Idle
    /\ InitPipeIdle
    /\ InitMailboxIdle

NextRate ==
    \/ \E a \in ClientAddrs :
          /\ reqCount < MaxRequests
          /\ BundleRequest(Arriving(a, I2pUserAgent, "/i2pseeds.su3", 0))
          /\ UNCHANGED <<log, engineVars, pipeVars, mailboxVars, su3Vars, readerVars, tokenVars, listenerVars>>
    \/ \E a \in ClientAddrs, ua \in BrowserAgents, p \in Paths, v \in CheckVals :
          /\ reqCount < MaxRequests
          /\ BrowseRequest(Arriving(a, ua, p, v))
          /\ UNCHANGED <<log, engineVars, pipeVars, mailboxVars, su3Vars, readerVars, listenerVars>>
    \/ Wait

SpecRate == RateInit /\ [][NextRate]_vars

(***************************************************************************)
(* The burst scenario: two clients behind one RemoteAddr fetch the bundle. *)
(***************************************************************************)
Clients == {"c1", "c2"}
MaxBurst == 5

ClientRequest(c) ==
    /\ Len(log) < MaxBurst
    /\ BundleRequest(BundleReq(SharedAddr, I2pUserAgent, NoHeader))
    /\ log' = Append(log, [client |-> c, at |-> now, status |-> lastResp'.status,
                           su3 |-> lastResp'.su3])
    /\ UNCHANGED <<engineVars, pipeVars, mailboxVars, su3Vars, readerVars, tokenVars, listenerVars>>

BurstInit ==
    /\ InitEngineServing
    /\ InitReaders
    /\ InitTokensIdle
    /\ trustProxy = FALSE
    /\ InitConfig
    /\ InitServer
    /\ InitListener
    /\ InitSu3Idle
    /\ InitPipeIdle
    /\ InitMailboxIdle

NextBurst ==
    \/ \E c \in Clients : ClientRequest(c)
    \/ Tick /\ UNCHANGED <<engineVars, pipeVars, mailboxVars, su3Vars, readerVars, httpVars, listenerVars>>
    \/ Wait

SpecBurst == BurstInit /\ [][NextBurst]_vars

(***************************************************************************)
(* The clearnet listener in front of the bundle endpoint.                  *)
(***************************************************************************)
ListenerInit ==
    /\ InitEngineServing
    /\ InitReaders
    /\ InitTokensIdle
    /\ trustProxy = FALSE
    /\ InitConfig
    /\ InitServer
    /\ InitListener
    /\ InitSu3Idle
    /\ InitPipeIdle
    /\ InitMailboxIdle

NextListener ==
    \/ \E a \in ClientAddrs :
          /\ Accept(a)
          /\ UNCHANGED <<engineVars, pipeVars, mailboxVars, su3Vars, readerVars, tokenVars, httpVars>>
    \/ \E a \in ClientAddrs :
          /\ BlockIP(a.host)
          /\ UNCHANGED <<engineVars, pipeVars, mailboxVars, su3Vars, readerVars, tokenVars, httpVars>>
    \/ \E i \in 1..Len(conns), ua \in UserAgents :
          /\ ConnServe(i, ua)
          /\ UNCHANGED <<engineVars, pipeVars, mailboxVars, su3Vars, readerVars, tokenVars>>

SpecListener == ListenerInit /\ [][NextListener]_vars


(***************************************************************************)
(* Rebuilds with their goroutines, one after another.                      *)
(***************************************************************************)
PipeNumRiValues == {1, 3, 10}
Schedules == {<<4>>, <<5>>, <<4, 0>>}
SigningKeys == {NilKey, [id |-> 1, size |-> 256]}

PipeInit ==
    /\ NumRi \in PipeNumRiValues
    /\ NumSu3 \in 1..MaxBundles
    /\ su3s = <<>>
    /\ committed = {<<>>}
    /\ startPc = "new"
    /\ rebuildPc = "idle"
    /\ ris = <<>>
    /\ newSu3s = <<>>
    /\ seedsLeft = 0
    /\ gen = 0
    /\ lastErr = Nil
    /\ InitReaders
    /\ InitTokensIdle
    /\ trustProxy = FALSE
    /\ InitConfig
    /\ InitServer
    /\ InitListener
    /\ InitSu3Idle
    /\ netdb \in Schedules
    /\ allRis = <<>>
    /\ SigningKey \in SigningKeys
    /\ producer = [pc |-> "off", i |-> 0]
    /\ builders = [b \in Workers |-> NoGoroutine]
    /\ forwarders = [b \in Workers |-> NoGoroutine]
    /\ su3Chan = [buf |-> <<>>, closed |-> FALSE]
    /\ wg = 0
    /\ closer = "off"
    /\ built = <<>>
    /\ InitMailboxIdle

PipeRest == <<readerVars, tokenVars, httpVars, listenerVars, su3Vars, mailboxVars>>

NextPipe ==
    \/ rebuild /\ UNCHANGED PipeRest
    \/ \E b \in Workers :
          \E seeds \in IF producer.pc = "loop" THEN SeedSets(ris, NumRi) ELSE {} :
              ProducerSend(b, seeds) /\ UNCHANGED PipeRest
    \/ ProducerClose /\ UNCHANGED PipeRest
    \/ \E b \in Workers : BuilderSend(b) /\ UNCHANGED PipeRest
    \/ \E b \in Workers : BuilderClose(b) /\ UNCHANGED PipeRest
    \/ \E b \in Workers : ForwarderSend(b) /\ UNCHANGED PipeRest
    \/ \E b \in Workers : ForwarderDone(b) /\ UNCHANGED PipeRest
    \/ CloserClose /\ UNCHANGED PipeRest
    \/ Collect /\ UNCHANGED PipeRest
    \/ Store /\ UNCHANGED PipeRest

SpecPipe == PipeInit /\ [][NextPipe]_vars

(***************************************************************************)
(* The goroutines of a rebuild under a fair scheduler.  A build may fail,  *)
(* as it does when the archive writer rejects an entry.                    *)
(***************************************************************************)
FairNumRiValues == {1, 3}
FairNumSu3Values == {1, 2}
FairSchedules == {<<4>>, <<0, 5>>}

PipeFairInit ==
    /\ NumRi \in FairNumRiValues
    /\ NumSu3 \in FairNumSu3Values
    /\ su3s = <<>>
    /\ committed = {<<>>}
    /\ startPc = "new"
    /\ rebuildPc = "idle"
    /\ ris = <<>>
    /\ newSu3s = <<>>
    /\ seedsLeft = 0
    /\ gen = 0
    /\ lastErr = Nil
    /\ InitReaders
    /\ InitTokensIdle
    /\ trustProxy = FALSE
    /\ InitConfig
    /\ InitServer
    /\ InitListener
    /\ InitSu3Idle
    /\ netdb \in FairSchedules
    /\ allRis = <<>>
    /\ SigningKey = [id |-> 1, size |-> 256]
    /\ producer = [pc |-> "off", i |-> 0]
    /\ builders = [b \in Workers |-> NoGoroutine]
    /\ forwarders = [b \in Workers |-> NoGoroutine]
    /\ su3Chan = [buf |-> <<>>, closed |-> FALSE]
    /\ wg = 0
    /\ closer = "off"
    /\ built = <<>>
    /\ InitMailboxIdle

ProducerStep ==
    \E b \in Workers :
        \/ \E seeds \in IF producer.pc = "loop" THEN SeedSets(ris, NumRi) ELSE {} :
              ProducerSend(b, seeds) /\ UNCHANGED PipeRest
        \/ BuilderSkip(b) /\ UNCHANGED PipeRest

NextPipeFair ==
    \/ rebuild /\ UNCHANGED PipeRest
    \/ ProducerStep
    \/ ProducerClose /\ UNCHANGED PipeRest
    \/ \E b \in Workers : BuilderSend(b) /\ UNCHANGED PipeRest
    \/ \E b \in Workers : BuilderClose(b) /\ UNCHANGED PipeRest
    \/ \E b \in Workers : ForwarderSend(b) /\ UNCHANGED PipeRest
    \/ \E b \in Workers : ForwarderDone(b) /\ UNCHANGED PipeRest
    \/ CloserClose /\ UNCHANGED PipeRest
    \/ Collect /\ UNCHANGED PipeRest
    \/ Store /\ UNCHANGED PipeRest

\* every goroutine that can take a step is scheduled
PipeFairness ==
    /\ WF_vars(ProducerStep)
    /\ WF_vars(ProducerClose /\ UNCHANGED PipeRest)
    /\ \A b \in Workers :
          /\ WF_vars(BuilderSend(b) /\ UNCHANGED PipeRest)
          /\ WF_vars(BuilderClose(b) /\ UNCHANGED PipeRest)
          /\ WF_vars(ForwarderSend(b) /\ UNCHANGED PipeRest)
          /\ WF_vars(ForwarderDone(b) /\ UNCHANGED PipeRest)
    /\ WF_vars(CloserClose /\ UNCHANGED PipeRest)
    /\ WF_vars(Collect /\ UNCHANGED PipeRest)
    /\ WF_vars(Store /\ UNCHANGED PipeRest)

SpecPipeFair == PipeFairInit /\ [][NextPipeFair]_vars /\ PipeFairness

(***************************************************************************)
(* The swapper, rebuilds and concurrent PeerSu3Bytes calls on rs.su3s.     *)
(***************************************************************************)
MailboxRest == <<engineVars, readerVars, tokenVars, httpVars, listenerVars, su3Vars, pipeVars>>

MailboxInit ==
    /\ InitEngineIdle
    /\ InitReaders
    /\ InitTokensIdle
    /\ trustProxy = FALSE
    /\ InitConfig
    /\ InitServer
    /\ InitListener
    /\ InitSu3Idle
    /\ InitPipeIdle
    /\ InitMailbox

NextMailbox ==
    \/ RebuildToSwapper /\ UNCHANGED MailboxRest
    \/ \E r \in Readers : RebuildToPeer(r) /\ UNCHANGED MailboxRest
    \/ \E r \in Readers : PeerFromSwapper(r) /\ UNCHANGED MailboxRest
    \/ \E q \in Readers : PeerToSwapper(q) /\ UNCHANGED MailboxRest
    \/ \E q, r \in Readers : PeerToPeer(q, r) /\ UNCHANGED MailboxRest

SpecMailbox == MailboxInit /\ [][NextMailbox]_vars

(***************************************************************************)
(* One SU3 file: signed, marshalled, possibly changed in transit, decoded  *)
(* and verified.                                                           *)
(***************************************************************************)
Su3Init ==
    /\ InitEngineIdle
    /\ InitReaders
    /\ InitTokensIdle
    /\ trustProxy = FALSE
    /\ InitConfig
    /\ InitServer
    /\ InitListener
    /\ InitSu3
    /\ InitPipeIdle
    /\ InitMailboxIdle

NextSu3 ==
    \/ \E k \in Keys \cup {NilKey} :
          Sign(k) /\ UNCHANGED <<engineVars, pipeVars, mailboxVars, readerVars, tokenVars, httpVars, listenerVars>>
    \/ MarshalBinary_call /\ UNCHANGED <<engineVars, pipeVars, mailboxVars, readerVars, tokenVars, httpVars, listenerVars>>
    \/ \E at \in 0..MaxOffset :
          Tamper(at) /\ UNCHANGED <<engineVars, pipeVars, mailboxVars, readerVars, tokenVars, httpVars, listenerVars>>
    \/ UnmarshalBinary_call /\ UNCHANGED <<engineVars, pipeVars, mailboxVars, readerVars, tokenVars, httpVars, listenerVars>>
    \/ \E k \in Keys :
          VerifySignature(Certificate(k))
          /\ UNCHANGED <<engineVars, pipeVars, mailboxVars, readerVars, tokenVars, httpVars, listenerVars>>

SpecSu3 == Su3Init /\ [][NextSu3]_vars

(***************************************************************************)
(* The browse surface over an engine that has built one snapshot and has   *)
(* been stopped: a browser and a reseed client behind one address, with    *)
(* the clock running in minutes.                                           *)
(***************************************************************************)
MaxBrowse == 3

BrowseInit ==
    /\ InitEngineServing
    /\ InitReaders
    /\ InitTokensIdle
    /\ trustProxy = FALSE
    /\ InitConfig
    /\ InitServer
    /\ InitListener
    /\ InitSu3Idle
    /\ InitPipeIdle
    /\ InitMailboxIdle

NextBrowse ==
    \/ \E ua \in BrowserAgents, p \in Paths, v \in CheckVals :
          /\ reqCount < MaxBrowse
          /\ BrowseRequest([addr |-> SharedAddr, ua |-> ua, xff |-> NoHeader,
                            path |-> p, onetime |-> v])
          /\ UNCHANGED <<log, engineVars, pipeVars, mailboxVars, su3Vars, readerVars, listenerVars>>
    \/ Tick /\ UNCHANGED <<engineVars, pipeVars, mailboxVars, su3Vars, readerVars, httpVars, listenerVars>>

SpecBrowse == BrowseInit /\ [][NextBrowse]_vars

(***************************************************************************)
(* C1.  Atomic swap: every PeerSu3Bytes call that has returned either      *)
(* failed with the not-available error on an empty loaded snapshot, or     *)
(* returned an element of the snapshot it loaded, and that snapshot is one *)
(* that was stored in full (the initial empty one or the result of one     *)
(* rebuild); it never returns nil without an error and never indexes       *)
(* outside the loaded snapshot.                                            *)
(***************************************************************************)
C1_AtomicSwap ==
    \A r \in Readers :
        rret[r] # Pending =>
            /\ rm[r] \in committed
            /\ \/ /\ rret[r].err = "404"
                  /\ rret[r].data = NilBytes
                  /\ Len(rm[r]) = 0
               \/ /\ rret[r].err = Nil
                  /\ rret[r].data # NilBytes
                  /\ rret[r].data # Panic
                  /\ \E i \in 1..Len(rm[r]) : rm[r][i] = rret[r].data

\* A call returned a bundle of an older snapshot while a rebuild was appending
\* to its new slice.
C1_Witness ==
    \E r \in Readers :
        /\ rret[r].err = Nil
        /\ rebuildPc = "collect"
        /\ Len(newSu3s) > 0
        /\ rm[r] # newSu3s
        /\ rm[r] = su3s

(***************************************************************************)
(* C3.  A rebuild that returns an error leaves the snapshot as it was, so  *)
(* that PeerSu3Bytes returns what it returned before, leaves the ticker    *)
(* loop running for the next tick, and hands nothing to a caller of        *)
(* PeerSu3Bytes: the only error a caller ever sees is the not-available    *)
(* error.                                                                  *)
(***************************************************************************)
RebuildReturnsError ==
    /\ rebuildPc' = "idle"
    /\ lastErr' # Nil
    /\ gen' # gen \/ rebuildPc = "collect"

C3_FailedRebuildKeepsSnapshot ==
    /\ [][RebuildReturnsError =>
            /\ su3s' = su3s
            /\ \A p \in Hosts : Su3BytesOf(su3s', p) = Su3BytesOf(su3s, p)
            /\ startPc' = "ticker"
            /\ rret' = rret]_vars
    /\ [](\A r \in Readers : rret[r].err \in {"pending", Nil, "404"})

\* A periodic rebuild has failed while a non-empty snapshot was being served.
C3_Witness ==
    /\ lastErr = "not enough routerInfos"
    /\ su3s # <<>>
    /\ startPc = "ticker"
    /\ \E r \in Readers : rret[r].err = Nil /\ rm[r] = su3s

(***************************************************************************)
(* C4.  Single use: no token is accepted by more than one CheckAcceptable  *)
(* call, whatever Acceptable and CheckAcceptable calls come in between; a  *)
(* string that was never issued is never accepted; and the token a call    *)
(* has just accepted is no longer in the store.                            *)
(***************************************************************************)
C4_TokenSingleUse ==
    /\ \A t \in DOMAIN accepted :
          /\ accepted[t] <= 1
          /\ t \in 1..(nextTok - 1)
    /\ lastCheck.ret => lastCheck.val \notin DOMAIN acceptables

\* A token issued in this run was accepted once, and the last call, with the
\* same token, returned false.
C4_Witness ==
    \E t \in DOMAIN accepted :
        /\ accepted[t] = 1
        /\ t >= nextTok - issueCount
        /\ lastCheck = [val |-> t, ret |-> FALSE]

(***************************************************************************)
(* C5.  Token bound.  As claimed: the store holds at most 50 entries right *)
(* after every Acceptable() call.                                          *)
(***************************************************************************)
C5_Original ==
    [][nextTok' # nextTok => Len0(acceptables') <= TokenCap]_vars

(***************************************************************************)
(* C5, amended.  The store holds at most 51 entries right after every      *)
(* Acceptable() call: the size is tested before the new token is added.    *)
(***************************************************************************)
C5_TokenBound ==
    [][nextTok' # nextTok => Len0(acceptables') <= TokenCap + 1]_vars

\* Acceptable() has just added the 51st entry.
C5_Witness ==
    /\ Len0(acceptables) = TokenCap + 1
    /\ issueCount > 0
    /\ nextTok - 1 \in DOMAIN acceptables
    /\ acceptables[nextTok - 1] = now

\* reseedHandler has been entered for the request served last.
HandlerRan == \E i \in 1..Len(lastResp.ran) : lastResp.ran[i].h = "reseedHandler"

(***************************************************************************)
(* C2.  Empty snapshot: a bundle request that passes the user-agent gate   *)
(* and the rate limiter while the snapshot is empty is answered with       *)
(* status 404, and status 500 is used only for errors other than the       *)
(* not-available error.                                                    *)
(***************************************************************************)
C2_Original ==
    (lastReq.endpoint = "bundle" /\ HandlerRan) =>
        /\ Len(lastResp.m) = 0 => lastResp.status = 404
        /\ lastResp.status = 500 => lastResp.logged \notin {Nil, "404"}

(***************************************************************************)
(* C6.  User-agent gate: a bundle request whose User-Agent is not exactly  *)
(* Wget/1.11.4 is answered 403 by verifyMiddleware, no handler after it is *)
(* entered and the limiter's store is left as it was; a request whose      *)
(* User-Agent is exactly Wget/1.11.4 reaches the limiter with the address  *)
(* and the User-Agent the gate received.                                   *)
(***************************************************************************)
C6_UserAgentGate ==
    /\ [](lastReq.endpoint = "bundle" =>
            IF lastReq.ua # "Wget/1.11.4"
            THEN /\ lastResp.status = 403
                 /\ Len(lastResp.ran) = 1
                 /\ lastResp.ran[1].h = "verifyMiddleware"
                 /\ lastResp.su3 = NilBytes
                 /\ lastResp.text = <<"403 Forbidden">>
            ELSE /\ lastResp.status # 403
                 /\ Len(lastResp.ran) >= 2
                 /\ lastResp.ran[1].h = "verifyMiddleware"
                 /\ lastResp.ran[2].h = "Throttle"
                 /\ lastResp.ran[2].addr = lastResp.ran[1].addr
                 /\ lastResp.ran[2].ua = lastResp.ran[1].ua
                 /\ lastResp.ran[1].addr = JoinHostPort(lastReq.addr)
                 /\ lastResp.ran[1].ua = lastReq.ua)
    /\ [][(reqCount' # reqCount /\ lastReq'.endpoint = "bundle"
             /\ lastReq'.ua # "Wget/1.11.4") => thTat' = thTat]_vars

\* A request in lower case was refused after an exact one had been admitted.
C6_Witness ==
    /\ lastReq.endpoint = "bundle"
    /\ lastReq.ua = "wget/1.11.4"
    /\ lastResp.status = 403
    /\ JoinHostPort(lastReq.addr) \in DOMAIN thTat

SeenAddrs == ClientAddrs \cup {Forwarded(a) : a \in ClientAddrs}

\* The IP of address a has used up its allowance in store tat: a request
\* with some RemoteAddr of that IP would be limited now.
UsedUp(tat, a, quota) ==
    \E b \in SeenAddrs :
        /\ b.host = a.host
        /\ RateLimit(tat, JoinHostPort(b), quota).limited

C9_BlacklistedNeverServed ==
    /\ \A i \in 1..Len(conns) :
          IF conns[i].listed
          THEN conns[i].closed /\ ~conns[i].handed /\ ~conns[i].served
          ELSE conns[i].handed /\ (conns[i].closed => conns[i].served)
    /\ lastReq # NoRequest =>
          \E i \in 1..Len(conns) :
              /\ conns[i].addr = lastReq.addr
              /\ conns[i].served
              /\ ~conns[i].listed
    /\ reqCount = Cardinality({i \in 1..Len(conns) : conns[i].served})

\* An IP was served, was then blocked, and its next connection was refused.
C9_Witness ==
    \E i, j \in 1..Len(conns) :
        /\ i < j
        /\ conns[i].served
        /\ conns[j].listed
        /\ conns[j].closed
        /\ conns[j].addr.host = conns[i].addr.host
        /\ serveLoop = "returned"

(***************************************************************************)
(* C10.  Bundle by IP: of two bundle requests served one after the other   *)
(* with status 200 from the same IP, whatever their source ports, the      *)
(* second gets the blob the first got if both handlers loaded the same     *)
(* snapshot; the blob is an element of the loaded snapshot, which is one   *)
(* a rebuild has stored.                                                   *)
(***************************************************************************)
C10_BundleByIP ==
    /\ [][(/\ reqCount' # reqCount
           /\ lastReq.endpoint = "bundle" /\ lastReq'.endpoint = "bundle"
           /\ lastResp.status = 200 /\ lastResp'.status = 200
           /\ lastReq'.addr.host = lastReq.addr.host
           /\ lastResp'.m = lastResp.m)
             => lastResp'.su3 = lastResp.su3]_vars
    /\ []((lastReq.endpoint = "bundle" /\ lastResp.status = 200) =>
            /\ lastResp.m \in committed
            /\ \E i \in 1..Len(lastResp.m) : lastResp.m[i] = lastResp.su3)

\* The same IP has been served from two source ports, the second time after
\* a periodic rebuild has replaced the snapshot.
C10_Witness ==
    /\ lastReq.endpoint = "bundle"
    /\ lastReq.addr = Addr("10.0.0.1", "4002")
    /\ lastResp.status = 200
    /\ "10.0.0.1:4001" \in DOMAIN thTat
    /\ "10.0.0.1:4002" \in DOMAIN thTat
    /\ lastResp.m = su3s
    /\ Cardinality(committed) > 2

\* A request to /i2pseeds on the browse surface is being served, thw admits
\* it, and it carries v in its onetime field.
PostStep(v) ==
    /\ reqCount' # reqCount
    /\ lastReq'.endpoint = "browse"
    /\ lastReq'.path = "/i2pseeds"
    /\ lastReq'.onetime = v
    /\ ~RateLimit(thwTat, Key(proxiedMiddleware(lastReq')), WebQuota).limited

(***************************************************************************)
(* C11.  Token flow: the first POST /i2pseeds that carries an issued token *)
(* within 4 minutes of its issue gets 200 with a bundle, and every later   *)
(* POST that carries the same token gets 404.                              *)
(***************************************************************************)
C11_Original ==
    [][\A v \in 1..(nextTok - 1) :
          PostStep(v) =>
             /\ (v \in DOMAIN acceptables /\ ~Expired(acceptables[v])) =>
                   /\ lastResp'.status = 200
                   /\ lastResp'.su3 # NilBytes
             /\ v \in DOMAIN accepted => lastResp'.status = 404]_vars

(***************************************************************************)
(* C11, amended.  Token flow: the first POST /i2pseeds that carries an     *)
(* issued token within 4 minutes of its issue gets 200 with a bundle of    *)
(* the snapshot; a later POST that carries the same token gets no bundle:  *)
(* 404 when its User-Agent is Wget/1.11.4, and otherwise the homepage      *)
(* with status 200 and a fresh token.                                      *)
(***************************************************************************)
C11_TokenFlow ==
    [][\A v \in 1..(nextTok - 1) :
          PostStep(v) =>
             /\ (v \in DOMAIN acceptables /\ ~Expired(acceptables[v])) =>
                   /\ lastResp'.status = 200
                   /\ lastResp'.su3 # NilBytes
                   /\ \E i \in 1..Len(su3s) : su3s[i] = lastResp'.su3
             /\ v \in DOMAIN accepted =>
                   /\ lastResp'.su3 = NilBytes
                   /\ IF lastReq'.ua = "Wget/1.11.4"
                      THEN lastResp'.status = 404 /\ lastResp'.text = <<>>
                      ELSE /\ lastResp'.status = 200
                           /\ lastResp'.text = <<"homepage">>
                           /\ lastResp'.form = nextTok]_vars

\* A browser got the bundle for a token of this run and then posted the same
\* token again: it got the homepage.
C11_Witness ==
    /\ lastReq.endpoint = "browse"
    /\ lastReq.path = "/i2pseeds"
    /\ lastReq.ua # I2pUserAgent
    /\ lastReq.onetime \in DOMAIN accepted
    /\ lastReq.onetime >= nextTok - issueCount
    /\ lastCheck = [val |-> lastReq.onetime, ret |-> FALSE]
    /\ lastResp.status = 200
    /\ lastResp.su3 = NilBytes

\* The handlers entered after browsingMiddleware for the response w.
Dispatched(w) ==
    {w.ran[i].h : i \in 1..Len(w.ran)} \ {"Throttle", "browsingMiddleware"}

(***************************************************************************)
(* C12.  Browser dispatch: a request that reaches browsingMiddleware is    *)
(* handled by exactly one branch: the bundle handler alone when its token  *)
(* is accepted (and then no token is issued), else the homepage handler    *)
(* alone when its User-Agent is not Wget/1.11.4, else the 404 handler      *)
(* alone.                                                                  *)
(***************************************************************************)
C12_Original ==
    [][(/\ reqCount' # reqCount
        /\ lastReq'.endpoint = "browse"
        /\ Dispatched(lastResp') # {})
          => IF lastCheck'.ret
             THEN /\ Dispatched(lastResp') = {"reseedHandler"}
                  /\ nextTok' = nextTok
                  /\ lastResp'.status # 404
             ELSE IF lastReq'.ua # "Wget/1.11.4"
             THEN Dispatched(lastResp') = {"HandleARealBrowser"}
             ELSE Dispatched(lastResp') = {"errorHandler"}]_vars

(***************************************************************************)
(* C13.  CheckAcceptable's frame: a call CheckAcceptable(v) returns true   *)
(* only if v is in the store with an age of at most 4 minutes; if v is in  *)
(* the store it is not in it after the call; if v is not in the store the  *)
(* store is left as it was; every entry other than v is left as it was.    *)
(* (In the token store's runs every step that neither issues a token nor   *)
(* moves the clock is such a call, with v = lastCheck'.val.)               *)
(***************************************************************************)
C13_CheckAcceptableFrame ==
    [][(nextTok' = nextTok /\ now' = now) =>
        LET v == lastCheck'.val
        IN  /\ lastCheck'.ret => (v \in DOMAIN acceptables /\ now - acceptables[v] <= 4)
            /\ v \in DOMAIN acceptables => v \notin DOMAIN acceptables'
            /\ v \notin DOMAIN acceptables => acceptables' = acceptables
            /\ DOMAIN acceptables' \ {v} = DOMAIN acceptables \ {v}
            /\ \A u \in DOMAIN acceptables \ {v} : acceptables'[u] = acceptables[u]]_vars

\* A token of this run was submitted after it had expired: it was refused and
\* removed, and the other tokens are still in the store.
C13_Witness ==
    /\ lastCheck.ret = FALSE
    /\ lastCheck.val >= nextTok - issueCount
    /\ lastCheck.val \in 1..(nextTok - 1)
    /\ lastCheck.val \notin DOMAIN acceptables
    /\ lastCheck.val \notin DOMAIN accepted
    /\ nextTok <= TokenCap
    /\ now > TokenLifetime
    /\ Len0(acceptables) > 0

(***************************************************************************)
(* The limits under configuration: the command has set the two fields      *)
(* from its flags, and one client sends bundle requests and requests for   *)
(* the readout page, all within one minute.  log holds what the bundle     *)
(* requests got, so reqCount - Len(log) counts the browse requests.        *)
(***************************************************************************)
RateLimitValues == {2, 4}
WebRateLimitValues == {3, 40}
MaxWeb == 31

ConfigInit ==
    /\ InitEngineServing
    /\ InitReaders
    /\ InitTokensIdle
    /\ trustProxy = FALSE
    /\ RequestRateLimit \in RateLimitValues
    /\ WebRateLimit \in WebRateLimitValues
    /\ InitServer
    /\ InitListener
    /\ InitSu3Idle
    /\ InitPipeIdle
    /\ InitMailboxIdle

NextConfig ==
    \/ ClientRequest("c1")
    \/ /\ reqCount - Len(log) < MaxWeb
       /\ BrowseRequest([addr |-> SharedAddr, ua |-> "Mozilla/5.0", xff |-> NoHeader,
                         path |-> "/readout", onetime |-> 0])
       /\ UNCHANGED <<log, engineVars, pipeVars, mailboxVars, su3Vars, readerVars, listenerVars>>

SpecConfig == ConfigInit /\ [][NextConfig]_vars

(***************************************************************************)
(* C14.  Configured limits: of the requests one client sends within an     *)
(* hour, the bundle endpoint admits exactly the first RequestRateLimit and *)
(* the browse surface exactly the first WebRateLimit; the others get 429.  *)
(***************************************************************************)
C14_Original ==
    [][reqCount' # reqCount =>
        IF lastReq'.endpoint = "bundle"
        THEN (lastResp'.status # 429) <=> (Len(log) < RequestRateLimit)
        ELSE (lastResp'.status # 429) <=> (reqCount - Len(log) < WebRateLimit)]_vars

(***************************************************************************)
(* C15.  Round trip: a File of an RSA signature type that carries the      *)
(* signature Sign gave it, marshalled and decoded again unchanged, comes   *)
(* back with the same format, signature type, file type, content type,     *)
(* signer id, content and signature, and with its version padded with      *)
(* zeros to max(16, len) bytes; the content length is at offset 16 of a    *)
(* header of 40 bytes.                                                     *)
(***************************************************************************)
C15_Original ==
    (/\ su3Pc = "parsed"
     /\ su3Tampered = -1
     /\ su3Key # NilKey
     /\ su3Err = ""
     /\ su3File.SignatureType \in RSATypes) =>
        /\ su3Parsed.Format = su3File.Format
        /\ su3Parsed.SignatureType = su3File.SignatureType
        /\ su3Parsed.FileType = su3File.FileType
        /\ su3Parsed.ContentType = su3File.ContentType
        /\ su3Parsed.SignerID = su3File.SignerID
        /\ su3Parsed.Content = su3File.Content
        /\ su3Parsed.Signature = su3File.Signature
        /\ su3Parsed.Version = PadVersion(su3Input).Version
        /\ Len(su3Parsed.Version) = Max(16, Len(su3Input.Version))
        /\ BigEndian(SubSeq(su3Data, 17, 24)) = Len(su3File.Content)
        /\ SubSeq(su3Data, 41, 40 + Len(su3Parsed.Version)) = su3Parsed.Version

(***************************************************************************)
(* C16.  Sign and verify: a File of an RSA signature type signed with key  *)
(* k, marshalled and decoded, verifies against the certificate of k when   *)
(* no byte was changed, and verifies neither against the certificate of    *)
(* another key nor after one byte of the signed region was changed.        *)
(***************************************************************************)
C16_Original ==
    (/\ su3Pc = "verified"
     /\ su3Key # NilKey
     /\ su3Err = ""
     /\ su3File.SignatureType \in RSATypes) =>
        /\ (su3Tampered = -1 /\ su3Cert = Certificate(su3Key)) => su3VerifyErr = ""
        /\ su3Cert # Certificate(su3Key) => su3VerifyErr # ""
        /\ su3Tampered # -1 => su3VerifyErr # ""

(***************************************************************************)
(* C17.  After Sign with an RSA key, for each RSA signature type the       *)
(* sigLen field of the marshalled header is the size of the key in bytes   *)
(* and the number of signature bytes appended, and the marshalled length   *)
(* is 40 + versionLen + signerIdLen + contentLen + sigLen.                 *)
(***************************************************************************)
C17_Original ==
    (/\ su3Pc = "marshalled"
     /\ su3Key # NilKey
     /\ su3Err = ""
     /\ su3File.SignatureType \in RSATypes) =>
        LET sigLen == BigEndian(SubSeq(su3Data, 11, 12))
        IN  /\ sigLen = su3Key.size
            /\ sigLen = Len(su3File.Signature)
            /\ Len(su3Data) = 40 + su3Data[14] + su3Data[16]
                                 + BigEndian(SubSeq(su3Data, 17, 24)) + sigLen

(***************************************************************************)
(* C18.  Sign with a nil key fails and leaves the File as it was; with a   *)
(* signature type that is not one of the three RSA types it fails with     *)
(* the unknown-type error and produces no signature; with an RSA type it   *)
(* succeeds and the signature is the PKCS#1 v1.5 signature of the digest   *)
(* of the body.                                                            *)
(***************************************************************************)
C18_Original ==
    [][(su3Pc = "new" /\ su3Pc' = "signed") =>
        /\ su3Key' = NilKey =>
              /\ su3Err' = "private key cannot be nil"
              /\ su3File' = su3File
        /\ (su3Key' # NilKey /\ su3File.SignatureType \notin RSATypes) =>
              /\ su3Err' = "unknown signature type"
              /\ su3File'.Signature \in {su3File.Signature, Zeros(su3Key'.size)}
        /\ (su3Key' # NilKey /\ su3File.SignatureType \in RSATypes) =>
              /\ su3Err' = ""
              /\ VerifyPKCS1v15(su3Key',
                    Sum(HashSize(su3File.SignatureType), BodyBytes(su3File')),
                    su3File'.Signature)]_vars

(***************************************************************************)
(* The blacklist on its own: files are loaded and single addresses are     *)
(* blocked.  A file is a sequence of at most MaxPieces pieces, each a      *)
(* newline or an address, no two addresses without a newline between.      *)
(***************************************************************************)
FileHosts == {"10.0.0.1", "10.0.0.2"}
Pieces == FileHosts \cup {"\n"}
RECURSIVE FilesOfLen(_)
FilesOfLen(n) ==
    IF n = 0 THEN {<<>>}
    ELSE {Append(f, p) : f \in FilesOfLen(n - 1), p \in Pieces}
FileContents ==
    {f \in UNION {FilesOfLen(n) : n \in 0..MaxPieces} :
        \A i \in 1..(Len(f) - 1) : f[i] = "\n" \/ f[i + 1] = "\n"}

BlacklistInit ==
    /\ InitEngineIdle
    /\ InitReaders
    /\ InitTokensIdle
    /\ trustProxy = FALSE
    /\ InitConfig
    /\ InitServer
    /\ InitListener
    /\ InitSu3Idle
    /\ InitPipeIdle
    /\ InitMailboxIdle

NextBlacklist ==
    \/ \E file \in {"", "blacklist.txt"}, readable \in BOOLEAN, content \in FileContents :
          /\ LoadFile(file, readable, content)
          /\ UNCHANGED <<engineVars, pipeVars, mailboxVars, su3Vars, readerVars, tokenVars, httpVars>>
    \/ \E h \in FileHosts :
          /\ BlockIP(h)
          /\ UNCHANGED <<engineVars, pipeVars, mailboxVars, su3Vars, readerVars, tokenVars, httpVars>>

SpecBlacklist == BlacklistInit /\ [][NextBlacklist]_vars

(***************************************************************************)
(* C19.  LoadFile of a readable file adds exactly the lines of the file    *)
(* that are not blank, so that the empty string is blocked after it only   *)
(* if it was before; LoadFile of a file that cannot be read returns the    *)
(* error and leaves the set alone; and no step removes an address.         *)
(***************************************************************************)
C19_Original ==
    [][/\ blacklist \subseteq blacklist'
       /\ lastLoad'.n # lastLoad.n =>
            IF lastLoad'.file # "" /\ lastLoad'.readable
            THEN /\ lastLoad'.err = Nil
                 /\ LET lines == Split(lastLoad'.content)
                    IN  blacklist' = blacklist
                            \cup {lines[i] : i \in {j \in 1..Len(lines) : lines[j] # ""}}
                 /\ isBlocked(blacklist', "") <=> isBlocked(blacklist, "")
            ELSE /\ lastLoad'.file # "" => lastLoad'.err # Nil
                 /\ blacklist' = blacklist]_vars

(***************************************************************************)
(* C20.  Every Acceptable() call leaves no token older than 4 minutes in   *)
(* the store, whatever the size of the store, and removes no token younger *)
(* than that while the store is within the cap.                            *)
(***************************************************************************)
C20_Original ==
    [][nextTok' # nextTok =>
        /\ \A t \in DOMAIN acceptables' : ~Expired(acceptables'[t])
        /\ Len0(acceptables) <= TokenCap =>
              \A t \in DOMAIN acceptables :
                  ~Expired(acceptables[t]) => t \in DOMAIN acceptables']_vars

(***************************************************************************)
(* C21.  Eviction is oldest first: when an Acceptable() call removes       *)
(* tokens that have not expired, every token it removes was issued no      *)
(* later than every token of the old store that it keeps.                  *)
(***************************************************************************)
C21_Original ==
    [][nextTok' # nextTok =>
        \A t \in DOMAIN acceptables \ DOMAIN acceptables' :
            ~Expired(acceptables[t]) =>
                \A u \in DOMAIN acceptables \cap DOMAIN acceptables' :
                    acceptables[t] <= acceptables[u]]_vars

\* rebuild() returns nil: the step that stores the new set
RebuildCommits == rebuildPc = "collect" /\ rebuildPc' = "idle" /\ lastErr' = Nil

\* the candidates a rebuild works on: all but the first quarter of the list
Trimmed(all) == {all[j] : j \in ((Len(all) \div 4) + 1)..Len(all)}

C23_PreCheck ==
    [][gen' # gen =>
        LET N == Len(allRis')
            left == N - (N \div 4)
            failed == rebuildPc' = "idle"
        IN  /\ failed <=> NumRi > left
            /\ failed =>
                  /\ lastErr' = "not enough routerInfos"
                  /\ su3s' = su3s
                  /\ committed' = committed
                  /\ <<producer, builders, forwarders, su3Chan, wg, closer>>'
                        = <<producer, builders, forwarders, su3Chan, wg, closer>>
            /\ ~failed =>
                  /\ Len(ris') = left
                  /\ \A j \in 1..left : ris'[j] = allRis'[(N \div 4) + j]
                  /\ producer'.pc = "loop"]_vars

\* Five candidates and NumRi = 10: the rebuild has failed, no goroutine was
\* started and the cache is empty.
C23_Witness ==
    /\ Len(allRis) = 5
    /\ NumRi = 10
    /\ gen = 1
    /\ rebuildPc = "idle"
    /\ lastErr = "not enough routerInfos"
    /\ producer.pc = "off"
    /\ su3s = <<>>

(***************************************************************************)
(* C24.  After one Start() call no rebuild is entered while another is in  *)
(* progress: the initial rebuild has returned before the timer loop        *)
(* starts, and the loop runs its rebuilds one after another.  A            *)
(* PeerSu3Bytes call can be made and can return at any moment of a         *)
(* rebuild, and what it loads is the snapshot committed last.              *)
(***************************************************************************)
C24_SingleFlight ==
    /\ [][gen' # gen => (rebuildPc = "idle" /\ startPc \in {"new", "ticker"})]_vars
    /\ [][\A r \in Readers :
            (rpc[r] = "idle" /\ rpc'[r] = "loaded") =>
                (rm'[r] = su3s /\ su3s \in committed /\ rebuildPc' = rebuildPc
                 /\ newSu3s' = newSu3s)]_vars
    /\ [](\A r \in Readers :
            /\ rpc[r] = "idle" => ENABLED PeerSu3BytesLoad(r, "testpeer")
            /\ rpc[r] = "loaded" => ENABLED PeerSu3BytesReturn(r))

\* While a periodic rebuild has collected a part of its new set, a caller has
\* loaded the snapshot of the rebuild before and is about to return from it.
C24_Witness ==
    /\ rebuildPc = "collect"
    /\ startPc = "periodic"
    /\ newSu3s # <<>>
    /\ su3s # <<>>
    /\ \E r \in Readers : rpc[r] = "loaded" /\ rm[r] = su3s /\ rret[r] = Pending

(***************************************************************************)
(* C25.  The first rebuild is the one Start() makes before it returns, and *)
(* every later one is made by the timer loop, one for a tick it receives.  *)
(* Once the loop has received the quit value no rebuild starts any more    *)
(* and the cache stays as it is, callers still being served from it.  The  *)
(* loop is at its select after the initial rebuild whether that rebuild    *)
(* failed or not.                                                          *)
(***************************************************************************)
C25_StartAndQuit ==
    /\ [][gen' # gen =>
            /\ gen' = gen + 1
            /\ (gen = 0) <=> (startPc = "new")
            /\ (gen > 0) <=> (startPc = "ticker")]_vars
    /\ [](startPc \in {"ticker", "periodic", "stopped"} => gen >= 1)
    /\ [][startPc = "stopped" =>
            /\ startPc' = "stopped"
            /\ rebuildPc' = "idle"
            /\ <<gen, su3s, committed>>' = <<gen, su3s, committed>>
            /\ \A r \in Readers :
                 (rpc[r] = "idle" /\ rpc'[r] = "loaded") => rm'[r] = su3s]_vars
    /\ [][(startPc \in {"new", "initial"} /\ rebuildPc' = "idle" /\ gen' = 1) =>
            startPc' = "ticker"]_vars
    /\ []((startPc = "ticker" /\ gen = 1) => (ENABLED TickerFire /\ ENABLED Quit))
    /\ [](startPc = "stopped" =>
            \A r \in Readers : rpc[r] = "idle" => ENABLED PeerSu3BytesLoad(r, "testpeer"))

\* The loop has gone through a failed initial rebuild and a successful
\* periodic one, has received the quit value, and a caller is being served.
C25_Witness ==
    /\ startPc = "stopped"
    /\ gen = 2
    /\ committed = {<<>>, su3s}
    /\ su3s # <<>>
    /\ su3s[1].gen = 2
    /\ \E r \in Readers : rpc[r] = "loaded" /\ rm[r] = su3s

(***************************************************************************)
(* C26.  Every blob of the served snapshot parses as an SU3 of file type   *)
(* ZIP and content type Reseed with the configured signer id, and its      *)
(* signature verifies against the certificate of the configured signing    *)
(* key; a bundle whose signing failed is not in the cache.                 *)
(***************************************************************************)
C26_Original ==
    \A j \in 1..Len(su3s) :
        LET parsed == UnmarshalBinary(su3s[j])
        IN  /\ parsed.FileType = FileTypeZIP
            /\ parsed.ContentType = ContentTypeReseed
            /\ parsed.SignerID = SignerID
            /\ SignOf(parsed, SigningKey).err = ""
            /\ VerifySignatureOf(parsed, Certificate(SigningKey)) = ""

(***************************************************************************)
(* C27.  Rejecting a blacklisted peer does not end the listener: when a    *)
(* connection from a blacklisted IP has been dropped, the serve loop is    *)
(* still running and hands a later connection from an IP that is not       *)
(* blacklisted to the request pipeline.                                    *)
(***************************************************************************)
C27_Original ==
    (\E i \in 1..Len(conns) : conns[i].listed /\ conns[i].closed /\ ~conns[i].handed) =>
        /\ serveLoop = "running"
        /\ Len(conns) < MaxConns =>
              \A a \in ClientAddrs : ~isBlocked(blacklist, a.host) => ENABLED Accept(a)

(***************************************************************************)
(* C28.  A client address that has used up its hourly allowance of the     *)
(* bundle endpoint, having been admitted there BundleQuota times within    *)
(* the last hour, receives no further bundle, neither from the bundle      *)
(* endpoint nor for a one-time token on the browse surface.                *)
(***************************************************************************)
C28_Original ==
    [][reqCount' # reqCount =>
        LET r == proxiedMiddleware(lastReq')
        IN  RateLimit(thTat, Key(r), BundleQuota).limited =>
                lastResp'.su3 = NilBytes]_vars

(***************************************************************************)
(* C29.  Under a fair scheduler every rebuild that has passed the          *)
(* pre-check returns, having stored its snapshot; at that moment the       *)
(* producer has sent numSu3 seed sets and closed the seed channel, every   *)
(* builder has closed its output, every fan-in goroutine has ended, the    *)
(* merged channel is closed and empty, and it stays so while no rebuild    *)
(* runs: no goroutine is left at a send or a receive.                      *)
(***************************************************************************)
PipelineDrained ==
    /\ producer.pc = "closed"
    /\ producer.i = NumSu3s(Len(ris))
    /\ \A b \in Workers : builders[b].pc = "closed" /\ forwarders[b].pc = "done"
    /\ wg = 0
    /\ closer = "done"
    /\ su3Chan.closed
    /\ su3Chan.buf = <<>>

C29_RebuildTerminates ==
    /\ (rebuildPc = "collect") ~> (rebuildPc = "idle" /\ lastErr = Nil /\ su3s = newSu3s)
    /\ []((rebuildPc = "idle" /\ producer.pc # "off") => PipelineDrained)

\* A rebuild has returned with a snapshot one bundle short of numSu3: one
\* seed set was skipped by its builder, and every goroutine has ended.
C29_Witness ==
    /\ rebuildPc = "idle"
    /\ producer.pc = "closed"
    /\ NumSu3 = 2
    /\ Len(su3s) = 1
    /\ PipelineDrained

(***************************************************************************)
(* C30.  With the snapshot behind the channel: a PeerSu3Bytes call that    *)
(* takes its snapshot from the channel takes the newest one rebuild() has  *)
(* handed over, and the snapshot the swapper holds is never replaced by an *)
(* older one.                                                              *)
(***************************************************************************)
C30_Original ==
    /\ [][\A r \in Readers :
            (peerPc[r] = "idle" /\ peerPc'[r] = "holding") => peerM'[r] = handed']_vars
    /\ [][swapM' >= swapM]_vars

====
